---- MODULE Spec2Model ----
(***************************************************************************)
(* The follow store, the notification ledger and the two daily jobs of     *)
(* nba_zone_bot.py (check_upcoming_games, check_finished_games), with the  *)
(* /follow and /unfollow store calls that run beside them.                 *)
(*                                                                         *)
(* The bot runs on one asyncio event loop: a job or a command runs without *)
(* interruption from one await to the next.  The only awaits a job makes   *)
(* are its send_message calls, so another coroutine runs only while a job  *)
(* waits for a send (or is not running).  The process itself may be shut   *)
(* down at any point.                                                      *)
(***************************************************************************)
EXTENDS Integers, Sequences, FiniteSets, TLC

\* ---------------------------------------------------------------- bounds
MaxFeed == 4        \* rows in what LeagueGameFinder returns
MaxLog == 2         \* rows in what PlayerGameLog returns for one day
MaxPasses == 2      \* job runs started in one behaviour
MaxFaults == 1      \* failed external calls / shutdowns in one behaviour
MaxRows == 3        \* rows in what a SELECT on user_player_follows returns

\* ---------------------------------------------------------------- values
Chats == {1, 2}
Players == {7, 9, 11}
\* the teams that have rows in the feed
Teams == {10, 20}
Games == {"g1", "g2"}
Kinds == {"upcoming", "finished"}

\* players.find_players_by_full_name gives the canonical full_name of a player
NameOf(p) ==
  CASE p = 7 -> "LeBron James"
    [] p = 9 -> "Stephen Curry"
    [] OTHER -> "Nikola Jokic"
\* the TEAM_ID that CommonPlayerInfo reports for a player; the team of
\* player 11 has no row in the feed
TeamOf(p) ==
  CASE p = 7 -> 10
    [] p = 9 -> 20
    [] OTHER -> 30

\* the texts a user may type after /unfollow
QueryNames == {"lebron james", "Stephen Curry", "Nobody"}

\* SQLite's NOCASE collation folds ASCII upper case to lower case
Lower(s) ==
  CASE s = "LeBron James"  -> "lebron james"
    [] s = "Stephen Curry" -> "stephen curry"
    [] s = "Nikola Jokic"  -> "nikola jokic"
    [] s = "Nobody"        -> "nobody"
    [] OTHER               -> s
NoCaseEq(a, b) == Lower(a) = Lower(b)

\* ----------------------------------------------------------- follow store
\* user_player_follows: PRIMARY KEY (chat_id, player_id)
FollowRows == [chat : Chats, player : Players, name : {NameOf(p) : p \in Players}]
HasKey(f, chat, pid) == \E r \in f : r.chat = chat /\ r.player = pid

\* an add_follow that answers True for a pair that is followed already
add_follow_always_added(f, chat, pid, name, dbok) ==
  IF ~dbok THEN [follows |-> f, ret |-> FALSE]
  ELSE [follows |-> f \cup {[chat |-> chat, player |-> pid, name |-> name]},
        ret |-> TRUE]
\* add_follow: INSERT OR IGNORE, returns cursor.rowcount > 0; a sqlite3.Error
\* is logged and answered False.
add_follow(f, chat, pid, name, dbok) ==
  IF ~dbok THEN [follows |-> f, ret |-> FALSE]
  ELSE IF HasKey(f, chat, pid) THEN [follows |-> f, ret |-> FALSE]
  ELSE [follows |-> f \cup {[chat |-> chat, player |-> pid, name |-> name]},
        ret |-> TRUE]

\* a DELETE that leaves out the chat_id condition
NameMatches_any_chat(f, chat, name) == {r \in f : NoCaseEq(r.name, name)}
\* the rows DELETE ... WHERE chat_id = ? AND player_full_name = ? removes
\* (the column is declared COLLATE NOCASE)
NameMatches(f, chat, name) == {r \in f : r.chat = chat /\ NoCaseEq(r.name, name)}

\* a remove_follow whose second DELETE takes the player_id of the rows the
\* first one removed, and so clears the chat's records for the player
remove_follow_cleans(f, l, chat, name, db) ==
  IF db = "err1" THEN [follows |-> f, ledger |-> l, ret |-> FALSE]
  ELSE
    LET gone == NameMatches(f, chat, name)
        dead == {n \in l : n.chat = chat /\ n.player \in {r.player : r \in gone}}
    IN IF gone # {} /\ db = "ok"
       THEN [follows |-> f \ gone, ledger |-> l \ dead, ret |-> dead # {}]
       ELSE [follows |-> f \ gone, ledger |-> l, ret |-> FALSE]

\* remove_follow.  db is "ok", "err1" (the first DELETE raises sqlite3.Error) or
\* "err2" (the second one raises, after the first was committed).
\* The second DELETE takes its player_id from a subquery over the follow table
\* as it is after the first DELETE; an empty subquery is NULL and matches no row.
\* The value returned is the rowcount of the statement executed last.
remove_follow(f, l, chat, name, db) ==
  IF db = "err1" THEN [follows |-> f, ledger |-> l, ret |-> FALSE]
  ELSE
    LET gone == NameMatches(f, chat, name)
        f1 == f \ gone
        rowcount1 == Cardinality(gone)
    IN IF rowcount1 > 0
       THEN IF db = "err2" THEN [follows |-> f1, ledger |-> l, ret |-> FALSE]
            ELSE
              LET sub == {r.player : r \in NameMatches(f1, chat, name)}
                  dead == IF sub = {} THEN {}
                          ELSE LET pid == CHOOSE p \in sub : TRUE
                               IN {n \in l : n.chat = chat /\ n.player = pid}
                  rowcount2 == Cardinality(dead)
              IN [follows |-> f1, ledger |-> l \ dead, ret |-> rowcount2 > 0]
       ELSE [follows |-> f1, ledger |-> l, ret |-> rowcount1 > 0]

\* a get_all_follows that lists every chat under each followed player
get_all_follows_every_chat(f, dbok) ==
  IF ~dbok THEN << >> ELSE [p \in {r.player : r \in f} |-> Chats]
\* get_all_follows: player_id -> the chat ids following it, each once; {} on a
\* sqlite3.Error.  The order of the rows of a SELECT without ORDER BY is not
\* fixed, so the grouping is kept as sets and every order is walked.
get_all_follows(f, dbok) ==
  IF ~dbok THEN << >>
  ELSE [p \in {r.player : r \in f} |-> {r.chat : r \in {q \in f : q.player = p}}]

\* the ASCII codes of the first two characters of a stored name, which tell
\* the names of the model apart
Codes(name) ==
  CASE name = "LeBron James"  -> <<76, 101>>
    [] name = "Stephen Curry" -> <<83, 116>>
    [] OTHER                  -> <<78, 105>>
\* NOCASE compares with the upper case ASCII letters folded to lower case
Fold(code) == IF code >= 65 /\ code <= 90 THEN code + 32 ELSE code
\* name a sorts before name b under COLLATE NOCASE
NoCaseLess(a, b) ==
  LET x == Codes(a)
      y == Codes(b)
  IN \/ Fold(x[1]) < Fold(y[1])
     \/ Fold(x[1]) = Fold(y[1]) /\ Fold(x[2]) < Fold(y[2])

\* a get_followed_players whose SELECT orders by player_id
get_followed_players_by_id(f, chat, dbok) ==
  IF ~dbok THEN << >>
  ELSE LET mine == {r \in f : r.chat = chat}
       IN [i \in 1..Cardinality(mine) |->
             LET r == CHOOSE q \in mine :
                        Cardinality({o \in mine : o.player < q.player}) = i - 1
             IN <<r.player, r.name>>]
\* get_followed_players: the (player_id, player_full_name) rows of the chat,
\* ORDER BY player_full_name COLLATE NOCASE ASC; [] on a sqlite3.Error
get_followed_players(f, chat, dbok) ==
  IF ~dbok THEN << >>
  ELSE LET mine == {r \in f : r.chat = chat}
       IN [i \in 1..Cardinality(mine) |->
             LET r == CHOOSE q \in mine :
                        Cardinality({o \in mine : NoCaseLess(o.name, q.name)}) = i - 1
             IN <<r.player, r.name>>]

\* What cursor.fetchall() may return for SELECT player_id, chat_id: the rows
\* in any order.  init_db keeps a table it finds with a player_id column, so
\* a table made before the PRIMARY KEY was declared may hold a pair twice.
SelectRows == [player : {7, 9}, chat : Chats]
RECURSIVE RowListsOfLen(_)
RowListsOfLen(n) ==
  IF n = 0 THEN {<< >>}
  ELSE {Append(l, r) : l \in RowListsOfLen(n - 1), r \in SelectRows}
RowLists == UNION {RowListsOfLen(n) : n \in 0..MaxRows}

\* lines 161-166 without the test of line 164
RECURSIVE group_rows_no_test(_, _)
group_rows_no_test(rows, acc) ==
  IF rows = << >> THEN acc
  ELSE LET r == Head(rows)
           a1 == IF r.player \in DOMAIN acc THEN acc ELSE acc @@ (r.player :> << >>)
       IN group_rows_no_test(Tail(rows), [a1 EXCEPT ![r.player] = Append(@, r.chat)])
\* lines 161-166: the loop over the fetched rows; acc is the dict follows
RECURSIVE group_rows(_, _)
group_rows(rows, acc) ==
  IF rows = << >> THEN acc
  ELSE LET r == Head(rows)
           a1 == IF r.player \in DOMAIN acc THEN acc ELSE acc @@ (r.player :> << >>)
           a2 == IF \E i \in 1..Len(a1[r.player]) : a1[r.player][i] = r.chat
                 THEN a1
                 ELSE [a1 EXCEPT ![r.player] = Append(@, r.chat)]
       IN group_rows(Tail(rows), a2)
\* get_all_follows on the fetched rows: player_id -> list of chat ids; {} on
\* a sqlite3.Error
get_all_follows_list(rows, dbok) ==
  IF ~dbok THEN << >> ELSE group_rows(rows, << >>)

\* ----------------------------------------------------------------- ledger
\* sent_notifications: PRIMARY KEY (chat_id, player_id, game_id, notification_type)
Tuples == [chat : Chats, player : Players, game : Games, kind : Kinds]
Tup(c, p, g, k) == [chat |-> c, player |-> p, game |-> g, kind |-> k]

\* a has_notification_been_sent whose SELECT leaves out notification_type
has_notification_been_sent_any_kind(l, c, p, g, k, dbok) ==
  IF ~dbok THEN FALSE ELSE \E t \in l : t.chat = c /\ t.player = p /\ t.game = g
\* a has_notification_been_sent that finds no record
has_notification_been_sent_never(l, c, p, g, k, dbok) == FALSE
\* a has_notification_been_sent that finds a record for every tuple
has_notification_been_sent_always(l, c, p, g, k, dbok) == TRUE
\* has_notification_been_sent: False on a sqlite3.Error
has_notification_been_sent(l, c, p, g, k, dbok) ==
  IF ~dbok THEN FALSE ELSE Tup(c, p, g, k) \in l

\* a mark_notification_sent whose INSERT is never committed
mark_notification_sent_dropped(l, c, p, g, k, dbok) == l
\* mark_notification_sent: INSERT OR IGNORE; a sqlite3.Error is logged only
mark_notification_sent(l, c, p, g, k, dbok) ==
  IF ~dbok THEN l ELSE l \cup {Tup(c, p, g, k)}

\* ------------------------------------------------------------- event feed
\* One row of LeagueGameFinder's frame: GAME_ID, TEAM_ID, GAME_DATE.  A game
\* has one row per team.
DateTexts == {"2025-04-08", "APR 08, 2025", "2025-04-09", "TBD"}
FeedRows == [game : Games, team : Teams, date : DateTexts]
\* the rows that may follow the rows of fd: of a game and team fd has no row of
NewRows(fd) ==
  {r \in FeedRows : \A i \in 1..Len(fd) : ~(fd[i].game = r.game /\ fd[i].team = r.team)}
RECURSIVE FeedsOfLen(_)
FeedsOfLen(n) ==
  IF n = 0 THEN {<< >>}
  ELSE UNION {{Append(fd, r) : r \in NewRows(fd)} : fd \in FeedsOfLen(n - 1)}
\* the feeds of at most MaxFeed rows, in any order, each row with any date text
Feeds == UNION {FeedsOfLen(n) : n \in 0..MaxFeed}

\* pandas' NaT: every comparison with it is False
NaT == 0
\* the day of the month of datetime.now(NBA_TZ); GAME_DATE holds dates only,
\* so a timestamp is a day at 00:00 of the reference timezone
NowDay == 7
tomorrow_et_start == NowDay + 1
day_after_tomorrow_et_start == NowDay + 2

\* a to_datetime that puts tomorrow's date where the text cannot be read
to_datetime_filled(text) ==
  CASE text = "2025-04-08"   -> 8
    [] text = "APR 08, 2025" -> 8
    [] text = "2025-04-09"   -> 9
    [] OTHER                 -> tomorrow_et_start
\* pd.to_datetime(GAME_DATE, errors='coerce'): the general parser reads both
\* encodings, and a text it cannot read becomes NaT
to_datetime(text) ==
  CASE text = "2025-04-08"   -> 8
    [] text = "APR 08, 2025" -> 8
    [] text = "2025-04-09"   -> 9
    [] OTHER                 -> NaT
\* pd.to_datetime(GAME_DATE, format='%b %d, %Y', errors='coerce')
to_datetime_alt(text) ==
  CASE text = "APR 08, 2025" -> 8
    [] OTHER                 -> NaT
\* GAME_DATETIME of a row under the parse attempt that succeeded
GAME_DATETIME(row, parse) ==
  IF parse = "first" THEN to_datetime(row.date) ELSE to_datetime_alt(row.date)

\* a window filter that lets the start of the day after tomorrow in
InWindow_closed(d) == d # NaT /\ d >= tomorrow_et_start /\ d <= day_after_tomorrow_et_start
\* upcoming_games_df: GAME_DATETIME >= tomorrow and < the day after
InWindow(d) == d # NaT /\ d >= tomorrow_et_start /\ d < day_after_tomorrow_et_start

RECURSIVE SelectIdx(_, _, _)
\* the indices i >= from of feed whose row passes the window filter, in feed order
SelectIdx(fd, parse, from) ==
  IF from > Len(fd) THEN << >>
  ELSE IF InWindow(GAME_DATETIME(fd[from], parse))
       THEN <<from>> \o SelectIdx(fd, parse, from + 1)
       ELSE SelectIdx(fd, parse, from + 1)
upcoming_games_df(fd, parse) == SelectIdx(fd, parse, 1)

\* opponent_row: the rows of all_games_df (not only the window) with the same
\* GAME_ID and another TEAM_ID
opponent_rows(fd, i) ==
  {j \in 1..Len(fd) : fd[j].game = fd[i].game /\ fd[j].team # fd[i].team}
Min(S) == CHOOSE x \in S : \A y \in S : x <= y

\* a local name of check_upcoming_games that no assignment has bound yet
Unbound == 0

\* ------------------------------------------------------------------ state
VARIABLES
  follows,     \* table user_player_follows
  ledger,      \* table sent_notifications
  feed,        \* the frame LeagueGameFinder returns
  gamelog,     \* player -> the frame PlayerGameLog returns for yesterday
  pc,          \* where each job stands: kind -> position
  up,          \* the locals of check_upcoming_games
  fin,         \* the locals of check_finished_games
  twin,        \* a second invocation of check_upcoming_games: its position and locals
  lastOp,      \* the last add_follow / remove_follow call and what it returned
  accepted,    \* history: how often the transport accepted a send, per tuple
  attempts,    \* history: send_message calls of the current run of a job, per tuple
  sent,        \* history: kind -> the tuples the transport accepted in the current run
  ledger0,     \* history: kind -> the ledger when the current run of the job began
  follows0,    \* history: kind -> the follow table when the current run of the job began
  matches,     \* history: kind -> the (player, game) pairs the current run of the job matched
  lookups,     \* history: CommonPlayerInfo calls of the current run of check_upcoming_games, per player
  passFaults,  \* history: kind -> the failures met by the current run of the job
  everFaults,  \* history: the failures met so far
  passes,      \* job runs started so far
  nfaults      \* failures and shutdowns so far

vars == <<follows, ledger, feed, gamelog, pc, up, fin, twin, lastOp, accepted, attempts, sent,
          ledger0, follows0, matches, lookups, passFaults, everFaults, passes, nfaults>>

Other(k) == IF k = "upcoming" THEN "finished" ELSE "upcoming"
\* the event loop is free for a coroutine to run: no job is between two awaits
LoopFree ==
  /\ \A k \in Kinds : pc[k] \in {"idle", "done", "sending"}
  /\ twin.pc \in {"idle", "done", "sending"}
\* job k may take its next step: the other job is not between two awaits
MayRun(k) ==
  /\ pc[Other(k)] \in {"idle", "done", "sending"}
  /\ twin.pc \in {"idle", "done", "sending"}

UpIdle == [all_follows |-> << >>, rows |-> << >>, row |-> 0, team_ids |-> {},
           opponent_id |-> Unbound, players |-> {}, player_id |-> 0,
           chat_ids |-> {}, chat_id |-> 0, processed_players_for_job |-> {}]
FinIdle == [all_follows |-> << >>, players |-> {}, player_id |-> 0, game_id |-> "",
            log_df |-> << >>, chat_ids |-> {}, chat_id |-> 0,
            processed_games_for_player |-> << >>]
TwinIdle == [pc |-> "idle", up |-> UpIdle]
NoOp == [op |-> "none", chat |-> 0, player |-> 0, name |-> "", ret |-> FALSE, db |-> "ok"]

ZeroCount == [t \in Tuples |-> 0]
\* the count c with the tuples of kind k set back to 0
ResetKind(c, k) == [t \in Tuples |-> IF t.kind = k THEN 0 ELSE c[t]]

\* everything but the tables, the feed, the logs and the two budgets, as the
\* process starts
InitRest ==
  /\ pc = [k \in Kinds |-> "idle"]
  /\ up = UpIdle
  /\ fin = FinIdle
  /\ twin = TwinIdle
  /\ lastOp = NoOp
  /\ accepted = ZeroCount
  /\ attempts = ZeroCount
  /\ lookups = [p \in Players |-> 0]
  /\ sent = [k \in Kinds |-> {}]
  /\ ledger0 = [k \in Kinds |-> {}]
  /\ follows0 = [k \in Kinds |-> {}]
  /\ matches = [k \in Kinds |-> {}]
  /\ passFaults = [k \in Kinds |-> {}]
  /\ everFaults = {}

FollowRow(c, p) == [chat |-> c, player |-> p, name |-> NameOf(p)]
\* the follow tables the jobs are run on: nobody follows, or chat 1 follows
\* both players and chat 2 follows player 7
JobTables == {{}, {FollowRow(1, 7), FollowRow(1, 9), FollowRow(2, 7)}}

\* a feed as the league publishes it: every game has one row per team, both
\* with tomorrow's date
PairedFeed(fd) ==
  \A i \in 1..Len(fd) :
     /\ Cardinality({j \in 1..Len(fd) : fd[j].game = fd[i].game}) = 2
     /\ Cardinality(opponent_rows(fd, i)) = 1
     /\ fd[i].date = "2025-04-08"

\* a feed of one game, "g1", the row of team 10 first, or no row
OneGameFeed(fd) ==
  PairedFeed(fd) /\ \A i \in 1..Len(fd) : fd[i].game = "g1" /\ fd[1].team = 10

\* The jobs: the follow table as earlier /follow calls left it, the ledger
\* empty, a feed of one game, and a log of one game for player 7 and of one
\* game or none for player 9
Init ==
  /\ follows \in JobTables
  /\ ledger = {}
  /\ feed \in {fd \in Feeds : OneGameFeed(fd)}
  /\ gamelog \in {gl \in [Players -> {<< >>, <<"g1">>}] :
                     gl[7] = <<"g1">> /\ gl[11] = << >>}
  /\ InitRest
  /\ passes = 0
  /\ nfaults = 0

\* The store calls: both tables empty
InitStore ==
  /\ follows = {}
  /\ ledger = {}
  /\ feed = << >>
  /\ gamelog = [p \in Players |-> << >>]
  /\ InitRest
  /\ passes = 0
  /\ nfaults = 0

\* a step of job k that meets the failures flt (a set of names)
Fault(k, flt) ==
  /\ nfaults + Cardinality(flt) <= MaxFaults
  /\ nfaults' = nfaults + Cardinality(flt)
  /\ everFaults' = everFaults \cup flt
  /\ passFaults' = [passFaults EXCEPT ![k] = @ \cup flt]
\* the same for the first step of a run, which starts the run's record anew
FaultAtStart(k, flt) ==
  /\ nfaults + Cardinality(flt) <= MaxFaults
  /\ nfaults' = nfaults + Cardinality(flt)
  /\ everFaults' = everFaults \cup flt
  /\ passFaults' = [passFaults EXCEPT ![k] = flt]

\* ----------------------------------------------------- /follow, /unfollow
\* follow_command -> add_follow(chat_id, player_id, full_name)
Follow(c, p) ==
  /\ LoopFree
  /\ \E dbok \in BOOLEAN :
       /\ nfaults + (IF dbok THEN 0 ELSE 1) <= MaxFaults
       /\ nfaults' = nfaults + (IF dbok THEN 0 ELSE 1)
       /\ everFaults' = everFaults \cup (IF dbok THEN {} ELSE {"follow_write"})
       /\ LET r == add_follow(follows, c, p, NameOf(p), dbok)
          IN /\ follows' = r.follows
             /\ lastOp' = [op |-> "follow", chat |-> c, player |-> p,
                           name |-> NameOf(p), ret |-> r.ret,
                           db |-> IF dbok THEN "ok" ELSE "err1"]
  /\ UNCHANGED <<lookups, twin, ledger, feed, gamelog, pc, up, fin, accepted, sent, attempts, ledger0, follows0,
                 matches, passFaults, passes>>

\* unfollow_command -> remove_follow(chat_id, text typed by the user)
Unfollow(c, name) ==
  /\ LoopFree
  /\ \E db \in {"ok", "err1", "err2"} :
       /\ nfaults + (IF db = "ok" THEN 0 ELSE 1) <= MaxFaults
       /\ nfaults' = nfaults + (IF db = "ok" THEN 0 ELSE 1)
       /\ everFaults' = everFaults \cup (IF db = "ok" THEN {} ELSE {"follow_write"})
       /\ LET r == remove_follow(follows, ledger, c, name, db)
          IN /\ follows' = r.follows
             /\ ledger' = r.ledger
             /\ lastOp' = [op |-> "unfollow", chat |-> c, player |-> 0,
                           name |-> name, ret |-> r.ret, db |-> db]
  /\ UNCHANGED <<lookups, twin, feed, gamelog, pc, up, fin, accepted, sent, attempts, ledger0, follows0,
                 matches, passFaults, passes>>

\* ------------------------------------------------- check_upcoming_games
\* Lines 204-253: read the follows, pull the feed, parse GAME_DATE, keep
\* tomorrow's rows.  A call that is not reached is not made (its outcome is
\* pinned to "ok").  parse tells which parse attempt ran without raising:
\* "first", "alt" (the first raised) or "none" (both raised).
StartUpcomingWhen(others) ==
  /\ pc["upcoming"] \in {"idle", "done"}
  /\ pc["finished"] \in others
  /\ twin.pc \in {"idle", "done", "sending"}
  /\ passes < MaxPasses
  /\ \E fo \in BOOLEAN, feedOk \in BOOLEAN, parse \in {"first", "alt", "none"} :
       LET af == get_all_follows(follows, fo)
           pulls == DOMAIN af # {}
           parses == pulls /\ feedOk /\ feed # << >>
           flt == (IF fo THEN {} ELSE {"follows_read"})
                    \cup (IF feedOk THEN {} ELSE {"feed"})
                    \cup (IF parse = "first" THEN {} ELSE {"parse"})
       IN /\ pulls \/ feedOk
          /\ parses \/ parse = "first"
          /\ FaultAtStart("upcoming", flt)
          /\ IF parses /\ parse # "none"
             THEN /\ up' = [UpIdle EXCEPT !.all_follows = af,
                                          !.rows = upcoming_games_df(feed, parse)]
                  /\ pc' = [pc EXCEPT !["upcoming"] = "row"]
             ELSE /\ up' = UpIdle
                  /\ pc' = [pc EXCEPT !["upcoming"] = "done"]
  /\ passes' = passes + 1
  /\ attempts' = ResetKind(attempts, "upcoming")
  /\ ledger0' = [ledger0 EXCEPT !["upcoming"] = ledger]
  /\ follows0' = [follows0 EXCEPT !["upcoming"] = follows]
  /\ matches' = [matches EXCEPT !["upcoming"] = {}]
  /\ sent' = [sent EXCEPT !["upcoming"] = {}]
  /\ lookups' = [p \in Players |-> 0]
  /\ UNCHANGED <<twin, follows, ledger, feed, gamelog, fin, lastOp, accepted>>

\* the 12:00 trigger fires while check_finished_games is not running
StartUpcoming == StartUpcomingWhen({"idle", "done"})
\* the 12:00 trigger fires while check_finished_games awaits send_message
StartUpcomingMeanwhile == StartUpcomingWhen({"sending"})

\* Lines 255-279: the next row of upcoming_games_df; team_ids and, when the
\* feed holds a row of the other team, opponent_id (and home_away_indicator,
\* bound by the same branch).  With no such row both names keep what an
\* earlier row bound, or stay unbound.  The branch reads the row's MATCHUP and
\* TEAM_ABBREVIATION as strings (267-271): a row that lacks one (matchupOk
\* false) raises a TypeError, and no try encloses these lines, so the
\* exception leaves check_upcoming_games.
UpcomingRow ==
  /\ pc["upcoming"] = "row"
  /\ MayRun("upcoming")
  /\ IF up.rows = << >>
     THEN /\ up' = [UpIdle EXCEPT !.all_follows = up.all_follows]
          /\ pc' = [pc EXCEPT !["upcoming"] = "done"]
          /\ UNCHANGED <<passFaults, everFaults, nfaults>>
     ELSE \E matchupOk \in BOOLEAN :
          LET i == Head(up.rows)
              opp == opponent_rows(feed, i)
          IN /\ opp = {} => matchupOk
             /\ Fault("upcoming", IF matchupOk THEN {} ELSE {"unhandled"})
             /\ IF matchupOk
                THEN /\ up' = [up EXCEPT
                            !.rows = Tail(up.rows),
                            !.row = i,
                            !.team_ids = IF opp = {} THEN {feed[i].team}
                                         ELSE {feed[i].team, feed[Min(opp)].team},
                            !.opponent_id = IF opp = {} THEN @ ELSE feed[Min(opp)].team,
                            !.players = DOMAIN up.all_follows]
                     /\ pc' = [pc EXCEPT !["upcoming"] = "player"]
                ELSE /\ up' = UpIdle
                     /\ pc' = [pc EXCEPT !["upcoming"] = "idle"]
  /\ UNCHANGED <<lookups, twin, follows, ledger, feed, gamelog, fin, lastOp, accepted, sent, attempts,
                 ledger0, follows0, matches, passes>>

\* a player_opponent_id that takes opponent_id whichever team the row is of
player_opponent_id_of_row(row, current_team_id, opponent_id) == opponent_id
\* line 307: the opponent of the player's team in the row
player_opponent_id(row, current_team_id, opponent_id) ==
  IF current_team_id = row.team THEN opponent_id ELSE row.team

\* an UpcomingPlayer that ends the run when CommonPlayerInfo fails
UpcomingPlayer_aborts ==
  /\ pc["upcoming"] = "player"
  /\ MayRun("upcoming")
  /\ IF up.players = {}
     THEN /\ up' = [up EXCEPT !.player_id = 0]
          /\ pc' = [pc EXCEPT !["upcoming"] = "row"]
          /\ UNCHANGED <<matches, lookups, passFaults, everFaults, nfaults>>
     ELSE \E p \in up.players, look \in {"ok", "empty", "error"} :
            LET row == feed[up.row]
                skip == p \in up.processed_players_for_job
                team == TeamOf(p)
                plays == look = "ok" /\ team \in up.team_ids
                nameError == team = row.team /\ up.opponent_id = Unbound
            IN /\ skip => look = "ok"
               /\ Fault("upcoming", IF look = "ok" THEN {} ELSE {"lookup"})
               /\ lookups' = IF skip THEN lookups ELSE [lookups EXCEPT ![p] = @ + 1]
               /\ IF ~skip /\ plays /\ ~nameError
                  THEN /\ up' = [up EXCEPT !.players = @ \ {p}, !.player_id = p,
                                           !.chat_ids = up.all_follows[p]]
                       /\ matches' = [matches EXCEPT !["upcoming"] = @ \cup
                            {[player |-> p, game |-> row.game, row |-> up.row,
                              opponent |-> player_opponent_id(row, team, up.opponent_id)]}]
                       /\ pc' = [pc EXCEPT !["upcoming"] = "chat"]
                  ELSE /\ up' = [up EXCEPT !.players = @ \ {p}]
                       /\ pc' = [pc EXCEPT !["upcoming"] =
                                   IF look = "ok" THEN "player" ELSE "done"]
                       /\ UNCHANGED matches
  /\ UNCHANGED <<twin, follows, ledger, feed, gamelog, fin, lastOp, accepted, sent, attempts, ledger0, follows0,
                 passes>>

\* Lines 288-312 and 327-331: the next followed player for the current row.
\* look is what CommonPlayerInfo gives: "ok", "empty" (an empty frame) or
\* "error" (it raises).  Reading opponent_id or home_away_indicator while
\* unbound raises a NameError, which line 329 catches like any other error.
UpcomingPlayer ==
  /\ pc["upcoming"] = "player"
  /\ MayRun("upcoming")
  /\ IF up.players = {}
     THEN /\ up' = [up EXCEPT !.player_id = 0]
          /\ pc' = [pc EXCEPT !["upcoming"] = "row"]
          /\ UNCHANGED <<matches, lookups, passFaults, everFaults, nfaults>>
     ELSE \E p \in up.players, look \in {"ok", "empty", "error"} :
            LET row == feed[up.row]
                skip == p \in up.processed_players_for_job
                team == TeamOf(p)
                plays == look = "ok" /\ team \in up.team_ids
                nameError == team = row.team /\ up.opponent_id = Unbound
            IN /\ skip => look = "ok"
               /\ Fault("upcoming", IF look = "ok" THEN {} ELSE {"lookup"})
               /\ lookups' = IF skip THEN lookups ELSE [lookups EXCEPT ![p] = @ + 1]
               /\ IF ~skip /\ plays /\ ~nameError
                  THEN /\ up' = [up EXCEPT !.players = @ \ {p}, !.player_id = p,
                                           !.chat_ids = up.all_follows[p]]
                       /\ matches' = [matches EXCEPT !["upcoming"] = @ \cup
                            {[player |-> p, game |-> row.game, row |-> up.row,
                              opponent |-> player_opponent_id(row, team, up.opponent_id)]}]
                       /\ pc' = [pc EXCEPT !["upcoming"] = "chat"]
                  ELSE /\ up' = [up EXCEPT !.players = @ \ {p}]
                       /\ UNCHANGED <<matches, pc>>
  /\ UNCHANGED <<twin, follows, ledger, feed, gamelog, fin, lastOp, accepted, sent, attempts, ledger0, follows0,
                 passes>>

\* an UpcomingChat that leaves line 327 out
UpcomingChat_forgets ==
  /\ pc["upcoming"] = "chat"
  /\ MayRun("upcoming")
  /\ IF up.chat_ids = {}
     THEN /\ up' = [up EXCEPT !.chat_id = 0]
          /\ pc' = [pc EXCEPT !["upcoming"] = "player"]
          /\ UNCHANGED <<attempts, passFaults, everFaults, nfaults>>
     ELSE \E c \in up.chat_ids, dbok \in BOOLEAN :
            LET g == feed[up.row].game
            IN /\ Fault("upcoming", IF dbok THEN {} ELSE {"ledger_read"})
               /\ IF has_notification_been_sent(ledger, c, up.player_id, g, "upcoming", dbok)
                  THEN /\ up' = [up EXCEPT !.chat_ids = @ \ {c}]
                       /\ UNCHANGED <<pc, attempts>>
                  ELSE /\ up' = [up EXCEPT !.chat_ids = @ \ {c}, !.chat_id = c]
                       /\ attempts' = [attempts EXCEPT
                                         ![Tup(c, up.player_id, g, "upcoming")] = @ + 1]
                       /\ pc' = [pc EXCEPT !["upcoming"] = "sending"]
  /\ UNCHANGED <<lookups, twin, follows, ledger, feed, gamelog, fin, lastOp, accepted, sent, ledger0, follows0, matches,
                 passes>>

\* Lines 314-317 and 327: the next chat following the matched player; the
\* ledger is asked, and an unsent notification goes to send_message.
UpcomingChat ==
  /\ pc["upcoming"] = "chat"
  /\ MayRun("upcoming")
  /\ IF up.chat_ids = {}
     THEN /\ up' = [up EXCEPT !.processed_players_for_job = @ \cup {up.player_id},
                              !.chat_id = 0]
          /\ pc' = [pc EXCEPT !["upcoming"] = "player"]
          /\ UNCHANGED <<attempts, passFaults, everFaults, nfaults>>
     ELSE \E c \in up.chat_ids, dbok \in BOOLEAN :
            LET g == feed[up.row].game
            IN /\ Fault("upcoming", IF dbok THEN {} ELSE {"ledger_read"})
               /\ IF has_notification_been_sent(ledger, c, up.player_id, g, "upcoming", dbok)
                  THEN /\ up' = [up EXCEPT !.chat_ids = @ \ {c}]
                       /\ UNCHANGED <<pc, attempts>>
                  ELSE /\ up' = [up EXCEPT !.chat_ids = @ \ {c}, !.chat_id = c]
                       /\ attempts' = [attempts EXCEPT
                                         ![Tup(c, up.player_id, g, "upcoming")] = @ + 1]
                       /\ pc' = [pc EXCEPT !["upcoming"] = "sending"]
  /\ UNCHANGED <<lookups, twin, follows, ledger, feed, gamelog, fin, lastOp, accepted, sent, ledger0, follows0, matches,
                 passes>>

\* the tuple of the notification check_upcoming_games is sending
UpcomingTuple == Tup(up.chat_id, up.player_id, feed[up.row].game, "upcoming")

\* an UpcomingSendDone that goes on to mark_notification_sent after a send that raised
UpcomingSendDone_marks_failed ==
  /\ pc["upcoming"] = "sending"
  /\ MayRun("upcoming")
  /\ \E res \in {"accepted", "rejected", "error"} :
       /\ Fault("upcoming", IF res = "accepted" THEN {} ELSE {"send_" \o res})
       /\ IF res = "accepted"
          THEN /\ accepted' = [accepted EXCEPT ![UpcomingTuple] = @ + 1]
               /\ sent' = [sent EXCEPT !["upcoming"] = @ \cup {UpcomingTuple}]
               /\ pc' = [pc EXCEPT !["upcoming"] = "marking"]
          ELSE /\ pc' = [pc EXCEPT !["upcoming"] = "marking"]
               /\ UNCHANGED <<accepted, sent>>
  /\ UNCHANGED <<lookups, twin, follows, ledger, feed, gamelog, up, fin, lastOp, attempts, ledger0, follows0,
                 matches, passes>>

\* an UpcomingSendDone that ends the run when the send raised
UpcomingSendDone_aborts ==
  /\ pc["upcoming"] = "sending"
  /\ MayRun("upcoming")
  /\ \E res \in {"accepted", "rejected", "error"} :
       /\ Fault("upcoming", IF res = "accepted" THEN {} ELSE {"send_" \o res})
       /\ IF res = "accepted"
          THEN /\ accepted' = [accepted EXCEPT ![UpcomingTuple] = @ + 1]
               /\ sent' = [sent EXCEPT !["upcoming"] = @ \cup {UpcomingTuple}]
               /\ pc' = [pc EXCEPT !["upcoming"] = "marking"]
          ELSE /\ pc' = [pc EXCEPT !["upcoming"] = "done"]
               /\ UNCHANGED <<accepted, sent>>
  /\ UNCHANGED <<lookups, twin, follows, ledger, feed, gamelog, up, fin, lastOp, attempts, ledger0, follows0,
                 matches, passes>>

\* an UpcomingSendDone that drops the follow of a chat that rejected the message
UpcomingSendDone_unfollows ==
  /\ pc["upcoming"] = "sending"
  /\ MayRun("upcoming")
  /\ \E res \in {"accepted", "rejected", "error"} :
       /\ Fault("upcoming", IF res = "accepted" THEN {} ELSE {"send_" \o res})
       /\ IF res = "accepted"
          THEN /\ accepted' = [accepted EXCEPT ![UpcomingTuple] = @ + 1]
               /\ sent' = [sent EXCEPT !["upcoming"] = @ \cup {UpcomingTuple}]
               /\ pc' = [pc EXCEPT !["upcoming"] = "marking"]
               /\ UNCHANGED follows
          ELSE /\ pc' = [pc EXCEPT !["upcoming"] = "chat"]
               /\ follows' = {r \in follows : r.chat # up.chat_id \/ r.player # up.player_id}
               /\ UNCHANGED <<accepted, sent>>
  /\ UNCHANGED <<lookups, twin, ledger, feed, gamelog, up, fin, lastOp, attempts, ledger0, follows0,
                 matches, passes>>

\* Lines 318-326: send_message returns (the transport accepted the message),
\* raises Forbidden/BadRequest ("rejected") or raises something else ("error").
UpcomingSendDone ==
  /\ pc["upcoming"] = "sending"
  /\ MayRun("upcoming")
  /\ \E res \in {"accepted", "rejected", "error"} :
       /\ Fault("upcoming", IF res = "accepted" THEN {} ELSE {"send_" \o res})
       /\ IF res = "accepted"
          THEN /\ accepted' = [accepted EXCEPT ![UpcomingTuple] = @ + 1]
               /\ sent' = [sent EXCEPT !["upcoming"] = @ \cup {UpcomingTuple}]
               /\ pc' = [pc EXCEPT !["upcoming"] = "marking"]
          ELSE /\ pc' = [pc EXCEPT !["upcoming"] = "chat"]
               /\ UNCHANGED <<accepted, sent>>
  /\ UNCHANGED <<lookups, twin, follows, ledger, feed, gamelog, up, fin, lastOp, attempts, ledger0, follows0,
                 matches, passes>>

\* Line 320: mark_notification_sent after the send returned
UpcomingMark ==
  /\ pc["upcoming"] = "marking"
  /\ MayRun("upcoming")
  /\ \E dbok \in BOOLEAN :
       /\ Fault("upcoming", IF dbok THEN {} ELSE {"ledger_write"})
       /\ ledger' = mark_notification_sent(ledger, up.chat_id, up.player_id,
                                           UpcomingTuple.game, "upcoming", dbok)
  /\ pc' = [pc EXCEPT !["upcoming"] = "chat"]
  /\ UNCHANGED <<lookups, twin, follows, feed, gamelog, up, fin, lastOp, accepted, sent, attempts, ledger0, follows0,
                 matches, passes>>

\* ---------------------------- a second invocation of check_upcoming_games
\* the second invocation may take its next step: no job is between two awaits
TwinMayRun == \A k \in Kinds : pc[k] \in {"idle", "done", "sending"}

\* The job queue calls check_upcoming_games again while an invocation is
\* awaiting send_message: nothing in the function keeps a second invocation
\* out.  The second invocation runs the same lines on locals of its own; the
\* history of the job (attempts, sent, matches, passFaults) goes on.
TwinStart ==
  /\ twin.pc \in {"idle", "done"}
  /\ pc["upcoming"] = "sending"
  /\ MayRun("upcoming")
  /\ passes < MaxPasses
  /\ \E fo \in BOOLEAN, feedOk \in BOOLEAN, parse \in {"first", "alt", "none"} :
       LET af == get_all_follows(follows, fo)
           pulls == DOMAIN af # {}
           parses == pulls /\ feedOk /\ feed # << >>
           flt == (IF fo THEN {} ELSE {"follows_read"})
                    \cup (IF feedOk THEN {} ELSE {"feed"})
                    \cup (IF parse = "first" THEN {} ELSE {"parse"})
       IN /\ pulls \/ feedOk
          /\ parses \/ parse = "first"
          /\ Fault("upcoming", flt)
          /\ IF parses /\ parse # "none"
             THEN twin' = [pc |-> "row",
                           up |-> [UpIdle EXCEPT !.all_follows = af,
                                                 !.rows = upcoming_games_df(feed, parse)]]
             ELSE twin' = [pc |-> "done", up |-> UpIdle]
  /\ passes' = passes + 1
  /\ UNCHANGED <<lookups, follows, ledger, feed, gamelog, pc, up, fin, lastOp, accepted, attempts,
                 sent, ledger0, follows0, matches>>

\* lines 255-279 in the second invocation
TwinRow ==
  /\ twin.pc = "row"
  /\ TwinMayRun
  /\ IF twin.up.rows = << >>
     THEN /\ twin' = [pc |-> "done", up |-> [UpIdle EXCEPT !.all_follows = twin.up.all_follows]]
          /\ UNCHANGED <<passFaults, everFaults, nfaults>>
     ELSE \E matchupOk \in BOOLEAN :
          LET i == Head(twin.up.rows)
              opp == opponent_rows(feed, i)
          IN /\ opp = {} => matchupOk
             /\ Fault("upcoming", IF matchupOk THEN {} ELSE {"unhandled"})
             /\ IF matchupOk
                THEN twin' = [pc |-> "player",
                              up |-> [twin.up EXCEPT
                                 !.rows = Tail(twin.up.rows),
                                 !.row = i,
                                 !.team_ids = IF opp = {} THEN {feed[i].team}
                                              ELSE {feed[i].team, feed[Min(opp)].team},
                                 !.opponent_id = IF opp = {} THEN @ ELSE feed[Min(opp)].team,
                                 !.players = DOMAIN twin.up.all_follows]]
                ELSE twin' = TwinIdle
  /\ UNCHANGED <<lookups, follows, ledger, feed, gamelog, pc, up, fin, lastOp, accepted, sent,
                 attempts, ledger0, follows0, matches, passes>>

\* lines 288-312 and 327-331 in the second invocation
TwinPlayer ==
  /\ twin.pc = "player"
  /\ TwinMayRun
  /\ IF twin.up.players = {}
     THEN /\ twin' = [pc |-> "row", up |-> [twin.up EXCEPT !.player_id = 0]]
          /\ UNCHANGED <<matches, passFaults, everFaults, nfaults>>
     ELSE \E p \in twin.up.players, look \in {"ok", "empty", "error"} :
            LET row == feed[twin.up.row]
                skip == p \in twin.up.processed_players_for_job
                team == TeamOf(p)
                plays == look = "ok" /\ team \in twin.up.team_ids
                nameError == team = row.team /\ twin.up.opponent_id = Unbound
            IN /\ skip => look = "ok"
               /\ Fault("upcoming", IF look = "ok" THEN {} ELSE {"lookup"})
               /\ IF ~skip /\ plays /\ ~nameError
                  THEN /\ twin' = [pc |-> "chat",
                                   up |-> [twin.up EXCEPT !.players = @ \ {p},
                                             !.player_id = p,
                                             !.chat_ids = twin.up.all_follows[p]]]
                       /\ matches' = [matches EXCEPT !["upcoming"] = @ \cup
                            {[player |-> p, game |-> row.game, row |-> twin.up.row,
                              opponent |-> player_opponent_id(row, team, twin.up.opponent_id)]}]
                  ELSE /\ twin' = [twin EXCEPT !.up.players = @ \ {p}]
                       /\ UNCHANGED matches
  /\ UNCHANGED <<lookups, follows, ledger, feed, gamelog, pc, up, fin, lastOp, accepted, sent,
                 attempts, ledger0, follows0, passes>>

\* lines 314-317 and 327 in the second invocation
TwinChat ==
  /\ twin.pc = "chat"
  /\ TwinMayRun
  /\ IF twin.up.chat_ids = {}
     THEN /\ twin' = [pc |-> "player",
                      up |-> [twin.up EXCEPT
                                !.processed_players_for_job = @ \cup {twin.up.player_id},
                                !.chat_id = 0]]
          /\ UNCHANGED <<attempts, passFaults, everFaults, nfaults>>
     ELSE \E c \in twin.up.chat_ids, dbok \in BOOLEAN :
            LET g == feed[twin.up.row].game
            IN /\ Fault("upcoming", IF dbok THEN {} ELSE {"ledger_read"})
               /\ IF has_notification_been_sent(ledger, c, twin.up.player_id, g,
                                                "upcoming", dbok)
                  THEN /\ twin' = [twin EXCEPT !.up.chat_ids = @ \ {c}]
                       /\ UNCHANGED attempts
                  ELSE /\ twin' = [pc |-> "sending",
                                   up |-> [twin.up EXCEPT !.chat_ids = @ \ {c},
                                                          !.chat_id = c]]
                       /\ attempts' = [attempts EXCEPT
                                         ![Tup(c, twin.up.player_id, g, "upcoming")] = @ + 1]
  /\ UNCHANGED <<lookups, follows, ledger, feed, gamelog, pc, up, fin, lastOp, accepted, sent,
                 ledger0, follows0, matches, passes>>

\* the tuple of the notification the second invocation is sending
TwinTuple == Tup(twin.up.chat_id, twin.up.player_id, feed[twin.up.row].game, "upcoming")

\* lines 318-326 in the second invocation
TwinSendDone ==
  /\ twin.pc = "sending"
  /\ TwinMayRun
  /\ \E res \in {"accepted", "rejected", "error"} :
       /\ Fault("upcoming", IF res = "accepted" THEN {} ELSE {"send_" \o res})
       /\ IF res = "accepted"
          THEN /\ accepted' = [accepted EXCEPT ![TwinTuple] = @ + 1]
               /\ sent' = [sent EXCEPT !["upcoming"] = @ \cup {TwinTuple}]
               /\ twin' = [twin EXCEPT !.pc = "marking"]
          ELSE /\ twin' = [twin EXCEPT !.pc = "chat"]
               /\ UNCHANGED <<accepted, sent>>
  /\ UNCHANGED <<lookups, follows, ledger, feed, gamelog, pc, up, fin, lastOp, attempts, ledger0, follows0,
                 matches, passes>>

\* line 320 in the second invocation
TwinMark ==
  /\ twin.pc = "marking"
  /\ TwinMayRun
  /\ \E dbok \in BOOLEAN :
       /\ Fault("upcoming", IF dbok THEN {} ELSE {"ledger_write"})
       /\ ledger' = mark_notification_sent(ledger, twin.up.chat_id, twin.up.player_id,
                                           TwinTuple.game, "upcoming", dbok)
  /\ twin' = [twin EXCEPT !.pc = "chat"]
  /\ UNCHANGED <<lookups, follows, feed, gamelog, pc, up, fin, lastOp, accepted, sent, attempts,
                 ledger0, follows0, matches, passes>>

\* ------------------------------------------------- check_finished_games
\* the frames PlayerGameLog may return for yesterday: Game_ID per row
Logs == UNION {[1..n -> Games] : n \in 0..MaxLog}

\* Lines 338-383: read the follows, pull the feed, parse GAME_DATE.  The
\* frame finished_games_df built from the feed is not read afterwards.
StartFinishedWhen(others) ==
  /\ pc["finished"] \in {"idle", "done"}
  /\ pc["upcoming"] \in others
  /\ twin.pc \in {"idle", "done", "sending"}
  /\ passes < MaxPasses
  /\ \E fo \in BOOLEAN, feedOk \in BOOLEAN, parse \in {"first", "alt", "none"} :
       LET af == get_all_follows(follows, fo)
           pulls == DOMAIN af # {}
           parses == pulls /\ feedOk /\ feed # << >>
           flt == (IF fo THEN {} ELSE {"follows_read"})
                    \cup (IF feedOk THEN {} ELSE {"feed"})
                    \cup (IF parse = "first" THEN {} ELSE {"parse"})
       IN /\ pulls \/ feedOk
          /\ parses \/ parse = "first"
          /\ FaultAtStart("finished", flt)
          /\ IF parses /\ parse # "none"
             THEN /\ fin' = [FinIdle EXCEPT !.all_follows = af, !.players = DOMAIN af]
                  /\ pc' = [pc EXCEPT !["finished"] = "player"]
             ELSE /\ fin' = FinIdle
                  /\ pc' = [pc EXCEPT !["finished"] = "done"]
  /\ passes' = passes + 1
  /\ attempts' = ResetKind(attempts, "finished")
  /\ ledger0' = [ledger0 EXCEPT !["finished"] = ledger]
  /\ follows0' = [follows0 EXCEPT !["finished"] = follows]
  /\ matches' = [matches EXCEPT !["finished"] = {}]
  /\ sent' = [sent EXCEPT !["finished"] = {}]
  /\ UNCHANGED <<lookups, twin, follows, ledger, feed, gamelog, up, lastOp, accepted>>

\* the 16:00 trigger fires while check_upcoming_games is not running
StartFinished == StartFinishedWhen({"idle", "done"})
\* the 16:00 trigger fires while check_upcoming_games awaits send_message
StartFinishedMeanwhile == StartFinishedWhen({"sending"})

\* Lines 385-436 and 453-456: the next followed player and its game log for
\* yesterday.  The PlayerGameLog call returns the frame ("ok") or raises
\* ("error"); line 453 catches that.
\* a latest_game_id that reads the log's last row
latest_game_id_last(log_df) == log_df[Len(log_df)]
\* lines 409-410: the game the log's first row is of
latest_game_id(log_df) == log_df[1]

FinishedPlayer ==
  /\ pc["finished"] = "player"
  /\ MayRun("finished")
  /\ IF fin.players = {}
     THEN /\ fin' = [FinIdle EXCEPT !.all_follows = fin.all_follows]
          /\ pc' = [pc EXCEPT !["finished"] = "done"]
          /\ UNCHANGED <<matches, passFaults, everFaults, nfaults>>
     ELSE \E p \in fin.players, look \in {"ok", "error"} :
            LET log == gamelog[p]
                game_id == latest_game_id(log)
                seen == p \in DOMAIN fin.processed_games_for_player
                          /\ game_id \in fin.processed_games_for_player[p]
            IN /\ Fault("finished", IF look = "ok" THEN {} ELSE {"lookup"})
               /\ IF look = "ok" /\ log # << >> /\ ~seen
                  THEN /\ fin' = [fin EXCEPT !.players = @ \ {p}, !.player_id = p,
                                            !.game_id = game_id,
                                            !.log_df = log,
                                            !.chat_ids = fin.all_follows[p]]
                       /\ matches' = [matches EXCEPT !["finished"] = @ \cup
                            {[player |-> p, game |-> game_id, row |-> 1,
                              opponent |-> Unbound]}]
                       /\ pc' = [pc EXCEPT !["finished"] = "chat"]
                  ELSE /\ fin' = [fin EXCEPT !.players = @ \ {p}]
                       /\ UNCHANGED <<matches, pc>>
  /\ UNCHANGED <<lookups, twin, follows, ledger, feed, gamelog, up, lastOp, accepted, sent, attempts, ledger0, follows0,
                 passes>>

\* Lines 437-438 and 448-451: the next chat following the player
FinishedChat ==
  /\ pc["finished"] = "chat"
  /\ MayRun("finished")
  /\ IF fin.chat_ids = {}
     THEN /\ fin' = [fin EXCEPT
                       !.processed_games_for_player =
                          (fin.player_id :> {fin.game_id}) @@ @,
                       !.chat_id = 0, !.player_id = 0, !.game_id = "",
                       !.log_df = << >>]
          /\ pc' = [pc EXCEPT !["finished"] = "player"]
          /\ UNCHANGED <<attempts, passFaults, everFaults, nfaults>>
     ELSE \E c \in fin.chat_ids, dbok \in BOOLEAN :
            /\ Fault("finished", IF dbok THEN {} ELSE {"ledger_read"})
            /\ IF has_notification_been_sent(ledger, c, fin.player_id, fin.game_id,
                                             "finished", dbok)
               THEN /\ fin' = [fin EXCEPT !.chat_ids = @ \ {c}]
                    /\ UNCHANGED <<pc, attempts>>
               ELSE /\ fin' = [fin EXCEPT !.chat_ids = @ \ {c}, !.chat_id = c]
                    /\ attempts' = [attempts EXCEPT
                         ![Tup(c, fin.player_id, fin.game_id, "finished")] = @ + 1]
                    /\ pc' = [pc EXCEPT !["finished"] = "sending"]
  /\ UNCHANGED <<lookups, twin, follows, ledger, feed, gamelog, up, lastOp, accepted, sent, ledger0, follows0, matches,
                 passes>>

\* the tuple of the notification check_finished_games is sending
FinishedTuple == Tup(fin.chat_id, fin.player_id, fin.game_id, "finished")

\* a FinishedSendDone that leaves out mark_notification_sent after an accepted send
FinishedSendDone_skips_mark ==
  /\ pc["finished"] = "sending"
  /\ MayRun("finished")
  /\ \E res \in {"accepted", "rejected", "error"} :
       /\ Fault("finished", IF res = "accepted" THEN {} ELSE {"send_" \o res})
       /\ IF res = "accepted"
          THEN /\ accepted' = [accepted EXCEPT ![FinishedTuple] = @ + 1]
               /\ sent' = [sent EXCEPT !["finished"] = @ \cup {FinishedTuple}]
               /\ pc' = [pc EXCEPT !["finished"] = "chat"]
          ELSE /\ pc' = [pc EXCEPT !["finished"] = "chat"]
               /\ UNCHANGED <<accepted, sent>>
  /\ UNCHANGED <<lookups, twin, follows, ledger, feed, gamelog, up, fin, lastOp, attempts, ledger0, follows0,
                 matches, passes>>

\* a FinishedSendDone that goes on to mark_notification_sent after a send that raised
FinishedSendDone_marks_failed ==
  /\ pc["finished"] = "sending"
  /\ MayRun("finished")
  /\ \E res \in {"accepted", "rejected", "error"} :
       /\ Fault("finished", IF res = "accepted" THEN {} ELSE {"send_" \o res})
       /\ IF res = "accepted"
          THEN /\ accepted' = [accepted EXCEPT ![FinishedTuple] = @ + 1]
               /\ sent' = [sent EXCEPT !["finished"] = @ \cup {FinishedTuple}]
               /\ pc' = [pc EXCEPT !["finished"] = "marking"]
          ELSE /\ pc' = [pc EXCEPT !["finished"] = "marking"]
               /\ UNCHANGED <<accepted, sent>>
  /\ UNCHANGED <<lookups, twin, follows, ledger, feed, gamelog, up, fin, lastOp, attempts, ledger0, follows0,
                 matches, passes>>

\* Lines 439-446: the outcome of send_message
FinishedSendDone ==
  /\ pc["finished"] = "sending"
  /\ MayRun("finished")
  /\ \E res \in {"accepted", "rejected", "error"} :
       /\ Fault("finished", IF res = "accepted" THEN {} ELSE {"send_" \o res})
       /\ IF res = "accepted"
          THEN /\ accepted' = [accepted EXCEPT ![FinishedTuple] = @ + 1]
               /\ sent' = [sent EXCEPT !["finished"] = @ \cup {FinishedTuple}]
               /\ pc' = [pc EXCEPT !["finished"] = "marking"]
          ELSE /\ pc' = [pc EXCEPT !["finished"] = "chat"]
               /\ UNCHANGED <<accepted, sent>>
  /\ UNCHANGED <<lookups, twin, follows, ledger, feed, gamelog, up, fin, lastOp, attempts, ledger0, follows0,
                 matches, passes>>

\* Line 441: mark_notification_sent after the send returned
FinishedMark ==
  /\ pc["finished"] = "marking"
  /\ MayRun("finished")
  /\ \E dbok \in BOOLEAN :
       /\ Fault("finished", IF dbok THEN {} ELSE {"ledger_write"})
       /\ ledger' = mark_notification_sent(ledger, fin.chat_id, fin.player_id,
                                           fin.game_id, "finished", dbok)
  /\ pc' = [pc EXCEPT !["finished"] = "chat"]
  /\ UNCHANGED <<lookups, twin, follows, feed, gamelog, up, fin, lastOp, accepted, sent, attempts, ledger0, follows0,
                 matches, passes>>

\* ------------------------------------------------------ process shutdown
\* the notifications handed to send_message whose outcome has not come back
InFlight ==
  (IF pc["upcoming"] = "sending" THEN {<<"upcoming", UpcomingTuple>>} ELSE {})
    \cup (IF pc["finished"] = "sending" THEN {<<"finished", FinishedTuple>>} ELSE {})
    \cup (IF twin.pc = "sending" THEN {<<"twin", TwinTuple>>} ELSE {})
\* the notifications the transport accepted that mark_notification_sent has
\* not been called for yet
Unmarked ==
  (IF pc["upcoming"] = "marking" THEN {<<"upcoming", UpcomingTuple>>} ELSE {})
    \cup (IF pc["finished"] = "marking" THEN {<<"finished", FinishedTuple>>} ELSE {})
    \cup (IF twin.pc = "marking" THEN {<<"twin", TwinTuple>>} ELSE {})

\* The process stops while a job is running; the jobs' locals are lost and
\* the two tables stay as committed.  A message in flight reaches the
\* transport (landed) or does not.
Shutdown ==
  /\ \/ \E k \in Kinds : pc[k] \notin {"idle", "done"}
     \/ twin.pc \notin {"idle", "done"}
  /\ nfaults < MaxFaults
  /\ nfaults' = nfaults + 1
  /\ \E landed \in SUBSET InFlight :
       LET name == IF landed \cup Unmarked = {} THEN "shutdown" ELSE "shutdown_unmarked"
           running(k) == \/ pc[k] \notin {"idle", "done"}
                         \/ k = "upcoming" /\ twin.pc \notin {"idle", "done"}
       IN /\ accepted' = [t \in Tuples |->
                            accepted[t] + Cardinality({s \in landed : s[2] = t})]
          /\ sent' = [k \in Kinds |-> sent[k] \cup {s[2] : s \in {r \in landed : r[2].kind = k}}]
          /\ everFaults' = everFaults \cup {name}
          /\ passFaults' = [k \in Kinds |->
                              IF running(k) THEN passFaults[k] \cup {name}
                              ELSE passFaults[k]]
  /\ pc' = [k \in Kinds |-> IF pc[k] = "done" THEN "done" ELSE "idle"]
  /\ up' = IF pc["upcoming"] = "done" THEN up ELSE UpIdle
  /\ fin' = IF pc["finished"] = "done" THEN fin ELSE FinIdle
  /\ twin' = IF twin.pc = "done" THEN twin ELSE TwinIdle
  /\ UNCHANGED <<lookups, follows, ledger, feed, gamelog, lastOp, attempts, ledger0, follows0,
                 matches, passes>>

Next ==
  \/ StartUpcoming
  \/ UpcomingRow
  \/ UpcomingPlayer
  \/ UpcomingChat
  \/ UpcomingSendDone
  \/ UpcomingMark
  \/ StartFinished
  \/ FinishedPlayer
  \/ FinishedChat
  \/ FinishedSendDone
  \/ FinishedMark
  \/ Shutdown

\* the two daily jobs, one run at a time, over a paired feed
Spec == Init /\ [][Next]_vars

NextStore ==
  \/ \E c \in Chats, p \in Players : Follow(c, p)
  \/ \E c \in Chats, name \in QueryNames : Unfollow(c, name)

\* the /follow and /unfollow store calls on their own
SpecStore == InitStore /\ [][NextStore]_vars

\* the tuples the ledger calls are made with on their own
LedgerArgs == {t \in Tuples : t.player = 7 /\ t.game = "g1"}

\* a call of mark_notification_sent, which returns None whether or not the
\* INSERT raised: the except at 198 keeps the error in (raised is FALSE)
MarkSent(t) ==
  /\ LoopFree
  /\ \E dbok \in BOOLEAN :
       /\ nfaults + (IF dbok THEN 0 ELSE 1) <= MaxFaults
       /\ nfaults' = nfaults + (IF dbok THEN 0 ELSE 1)
       /\ everFaults' = everFaults \cup (IF dbok THEN {} ELSE {"ledger_write"})
       /\ ledger' = mark_notification_sent(ledger, t.chat, t.player, t.game, t.kind, dbok)
       /\ lastOp' = [op |-> "mark_sent", tuple |-> t, raised |-> FALSE,
                     db |-> IF dbok THEN "ok" ELSE "err1"]
  /\ UNCHANGED <<lookups, twin, follows, feed, gamelog, pc, up, fin, accepted, sent, attempts, ledger0, follows0,
                 matches, passFaults, passes>>

\* a call of has_notification_been_sent
HasSent(t) ==
  /\ LoopFree
  /\ \E dbok \in BOOLEAN :
       /\ nfaults + (IF dbok THEN 0 ELSE 1) <= MaxFaults
       /\ nfaults' = nfaults + (IF dbok THEN 0 ELSE 1)
       /\ everFaults' = everFaults \cup (IF dbok THEN {} ELSE {"ledger_read"})
       /\ lastOp' = [op |-> "has_sent", tuple |-> t,
                     ret |-> has_notification_been_sent(ledger, t.chat, t.player,
                                                        t.game, t.kind, dbok),
                     db |-> IF dbok THEN "ok" ELSE "err1"]
  /\ UNCHANGED <<lookups, twin, follows, ledger, feed, gamelog, pc, up, fin, accepted, sent, attempts,
                 ledger0, follows0, matches, passFaults, passes>>

NextLedger ==
  \/ \E c \in Chats : Follow(c, 7)
  \/ \E c \in Chats, name \in QueryNames : Unfollow(c, name)
  \/ \E t \in LedgerArgs : MarkSent(t)
  \/ \E t \in LedgerArgs : HasSent(t)

\* the store calls and the ledger calls on their own, for one player
SpecLedger == InitStore /\ [][NextLedger]_vars

\* /follow and /unfollow of two chats that follow players 7 and 9, with
\* records of notifications about player 7 coming into the ledger
InitUnfollow ==
  /\ follows = {FollowRow(c, p) : c \in Chats, p \in {7, 9}}
  /\ ledger = {}
  /\ feed = << >>
  /\ gamelog = [p \in Players |-> << >>]
  /\ InitRest
  /\ passes = 0
  /\ nfaults = 0

NextUnfollow ==
  \/ \E c \in Chats, p \in {7, 9} : Follow(c, p)
  \/ \E c \in Chats, name \in QueryNames : Unfollow(c, name)
  \/ \E t \in LedgerArgs : MarkSent(t)

SpecUnfollow == InitUnfollow /\ [][NextUnfollow]_vars

\* One run of check_upcoming_games in which no call fails, over any feed:
\* rows in any order, games with one row or two, dates that parse or not
InitMatch ==
  /\ follows = {FollowRow(1, 7), FollowRow(1, 9), FollowRow(2, 7), FollowRow(2, 11)}
  /\ ledger = {}
  /\ feed \in Feeds
  /\ gamelog = [p \in Players |-> << >>]
  /\ InitRest
  /\ passes = MaxPasses - 1
  /\ nfaults = MaxFaults

NextMatch ==
  \/ StartUpcoming
  \/ UpcomingRow
  \/ UpcomingPlayer
  \/ UpcomingChat
  \/ UpcomingSendDone
  \/ UpcomingMark

SpecMatch == InitMatch /\ [][NextMatch]_vars

\* check_upcoming_games run again over the same feed (the job of 1120-1125
\* runs daily, and the feed is what it was while the league's day has not
\* changed): any rows of the two games, all dated tomorrow
InitRerun ==
  /\ follows = {FollowRow(1, 7), FollowRow(2, 9)}
  /\ ledger = {}
  /\ feed \in {fd \in Feeds : \A i \in 1..Len(fd) : fd[i].date = "2025-04-08"}
  /\ gamelog = [p \in Players |-> << >>]
  /\ InitRest
  /\ passes = 0
  /\ nfaults = 0

NextRerun ==
  \/ StartUpcoming
  \/ UpcomingRow
  \/ UpcomingPlayer
  \/ UpcomingChat
  \/ UpcomingSendDone
  \/ UpcomingMark

SpecRerun == InitRerun /\ [][NextRerun]_vars

\* check_upcoming_games run again while chat 1 sends /unfollow and /follow
\* for player 7, whom it follows at the start
InitRefollow ==
  /\ follows = {FollowRow(1, 7)}
  /\ ledger = {}
  /\ feed = <<[game |-> "g1", team |-> 10, date |-> "2025-04-08"],
              [game |-> "g1", team |-> 20, date |-> "2025-04-08"]>>
  /\ gamelog = [p \in Players |-> << >>]
  /\ InitRest
  /\ passes = 0
  /\ nfaults = 0

NextRefollow ==
  \/ StartUpcoming
  \/ UpcomingRow
  \/ UpcomingPlayer
  \/ UpcomingChat
  \/ UpcomingSendDone
  \/ UpcomingMark
  \/ Follow(1, 7)
  \/ Unfollow(1, "lebron james")

SpecRefollow == InitRefollow /\ [][NextRefollow]_vars

\* One run of check_upcoming_games, calls failing or not, over a feed as the
\* league publishes it, of one game or two
InitPair ==
  /\ follows = {FollowRow(1, 7), FollowRow(1, 9), FollowRow(2, 7), FollowRow(2, 11)}
  /\ ledger = {}
  /\ feed \in {fd \in Feeds : PairedFeed(fd)}
  /\ gamelog = [p \in Players |-> << >>]
  /\ InitRest
  /\ passes = MaxPasses - 1
  /\ nfaults = 0

NextPair ==
  \/ StartUpcoming
  \/ UpcomingRow
  \/ UpcomingPlayer
  \/ UpcomingChat
  \/ UpcomingSendDone
  \/ UpcomingMark
  \/ Shutdown

SpecPair == InitPair /\ [][NextPair]_vars

\* Runs of check_finished_games for two chats following player 7, over any
\* game log of the player
InitLog ==
  /\ follows = {FollowRow(1, 7), FollowRow(2, 7)}
  /\ ledger = {}
  /\ feed = <<[game |-> "g1", team |-> 10, date |-> "2025-04-08"],
              [game |-> "g1", team |-> 20, date |-> "2025-04-08"]>>
  /\ gamelog \in {gl \in [Players -> Logs] : gl[9] = << >> /\ gl[11] = << >>}
  /\ InitRest
  /\ passes = 0
  /\ nfaults = 0

NextLog ==
  \/ StartFinished
  \/ FinishedPlayer
  \/ FinishedChat
  \/ FinishedSendDone
  \/ FinishedMark
  \/ Shutdown

SpecLog == InitLog /\ [][NextLog]_vars

\* Two invocations of check_upcoming_games on one loop, calls failing or not:
\* chat 1 follows player 7, whose team plays game "g1" tomorrow
InitTwin ==
  /\ follows = {FollowRow(1, 7)}
  /\ ledger = {}
  /\ feed = <<[game |-> "g1", team |-> 10, date |-> "2025-04-08"],
              [game |-> "g1", team |-> 20, date |-> "2025-04-08"]>>
  /\ gamelog = [p \in Players |-> << >>]
  /\ InitRest
  /\ passes = 0
  /\ nfaults = 0
NextTwin ==
  \/ StartUpcoming
  \/ UpcomingRow
  \/ UpcomingPlayer
  \/ UpcomingChat
  \/ UpcomingSendDone
  \/ UpcomingMark
  \/ TwinStart
  \/ TwinRow
  \/ TwinPlayer
  \/ TwinChat
  \/ TwinSendDone
  \/ TwinMark
SpecTwin == InitTwin /\ [][NextTwin]_vars

\* The two jobs on one loop, either starting while the other awaits a send or
\* after it returned, calls failing or not: chats 1 and 2 follow player 7,
\* whose team plays game "g1" tomorrow and whose log for yesterday holds "g1"
InitBoth ==
  /\ follows = {FollowRow(1, 7), FollowRow(2, 7)}
  /\ ledger = {}
  /\ feed = <<[game |-> "g1", team |-> 10, date |-> "2025-04-08"],
              [game |-> "g1", team |-> 20, date |-> "2025-04-08"]>>
  /\ gamelog = [p \in Players |-> IF p = 7 THEN <<"g1">> ELSE << >>]
  /\ InitRest
  /\ passes = 0
  /\ nfaults = 0
NextBoth ==
  \/ StartUpcoming
  \/ StartUpcomingMeanwhile
  \/ UpcomingRow
  \/ UpcomingPlayer
  \/ UpcomingChat
  \/ UpcomingSendDone
  \/ UpcomingMark
  \/ StartFinished
  \/ StartFinishedMeanwhile
  \/ FinishedPlayer
  \/ FinishedChat
  \/ FinishedSendDone
  \/ FinishedMark
SpecBoth == InitBoth /\ [][NextBoth]_vars

\* One run of either job, with /follow and /unfollow of player 7 handled
\* whenever the loop is free, the running job awaiting a send included
InitCmd ==
  /\ follows = {FollowRow(1, 7)}
  /\ ledger = {}
  /\ feed = <<[game |-> "g1", team |-> 10, date |-> "2025-04-08"],
              [game |-> "g1", team |-> 20, date |-> "2025-04-08"]>>
  /\ gamelog = [p \in Players |-> IF p = 7 THEN <<"g1">> ELSE << >>]
  /\ InitRest
  /\ passes = MaxPasses - 1
  /\ nfaults = 0
NextCmd ==
  \/ StartUpcoming
  \/ UpcomingRow
  \/ UpcomingPlayer
  \/ UpcomingChat
  \/ UpcomingSendDone
  \/ UpcomingMark
  \/ StartFinished
  \/ FinishedPlayer
  \/ FinishedChat
  \/ FinishedSendDone
  \/ FinishedMark
  \/ \E c \in Chats : Follow(c, 7)
  \/ \E c \in Chats : Unfollow(c, "lebron james")
SpecCmd == InitCmd /\ [][NextCmd]_vars

\* a call of get_all_follows on a table that holds the rows given
GetAllFollows(rows) ==
  /\ LoopFree
  /\ \E dbok \in BOOLEAN :
       /\ nfaults + (IF dbok THEN 0 ELSE 1) <= MaxFaults
       /\ nfaults' = nfaults + (IF dbok THEN 0 ELSE 1)
       /\ everFaults' = everFaults \cup (IF dbok THEN {} ELSE {"follows_read"})
       /\ lastOp' = [op |-> "get_all_follows", rows |-> rows,
                     ret |-> get_all_follows_list(rows, dbok),
                     db |-> IF dbok THEN "ok" ELSE "err1"]
  /\ UNCHANGED <<lookups, twin, follows, ledger, feed, gamelog, pc, up, fin, accepted, sent, attempts,
                 ledger0, follows0, matches, passFaults, passes>>

\* get_all_follows on its own, over every list of rows
NextGroup == \E rows \in RowLists : GetAllFollows(rows)
SpecGroup == InitStore /\ [][NextGroup]_vars

\* a call of get_followed_players, as /following makes it
GetFollowedPlayers(c) ==
  /\ LoopFree
  /\ \E dbok \in BOOLEAN :
       /\ nfaults + (IF dbok THEN 0 ELSE 1) <= MaxFaults
       /\ nfaults' = nfaults + (IF dbok THEN 0 ELSE 1)
       /\ everFaults' = everFaults \cup (IF dbok THEN {} ELSE {"follows_read"})
       /\ lastOp' = [op |-> "get_followed_players", chat |-> c,
                     ret |-> get_followed_players(follows, c, dbok),
                     db |-> IF dbok THEN "ok" ELSE "err1"]
  /\ UNCHANGED <<lookups, twin, follows, ledger, feed, gamelog, pc, up, fin, accepted, sent, attempts,
                 ledger0, follows0, matches, passFaults, passes>>

\* /follow, /unfollow and /following on their own
NextList ==
  \/ \E c \in Chats, p \in Players : Follow(c, p)
  \/ \E c \in Chats, name \in QueryNames : Unfollow(c, name)
  \/ \E c \in Chats : GetFollowedPlayers(c)
SpecList == InitStore /\ [][NextList]_vars

\* ------------------------------------------------------------- properties
\* the current run of job k matched player p with game g
Matched(k, p, g) == \E m \in matches[k] : m.player = p /\ m.game = g
\* the follows the current run of job k read when it began
Snapshot(k) == IF k = "upcoming" THEN up.all_follows ELSE fin.all_follows
\* job k has gone past the send and the mark of every tuple it sent
MovedOn(k) == pc[k] \in {"row", "player", "chat", "done"}
\* the failures after which the ledger does not tell what was delivered
LedgerFaults == {"ledger_read", "ledger_write", "shutdown_unmarked"}

\* C1, as the spec states it: over any runs of the jobs, failed deliveries
\* included, the transport accepts at most one delivery per tuple
\* (subscriber, entity, event, kind).
C1_AtMostOnceAccepted == \A t \in Tuples : accepted[t] <= 1

\* C1, amended: the transport accepts at most one delivery per tuple as long
\* as no ledger read or write has failed and the process was not stopped
\* between an accepted send and its mark_sent; failed sends, lookups and
\* feed pulls may have happened.
C1_AtMostOnceAcceptedWhileLedgerWorks ==
  everFaults \cap LedgerFaults = {} => \A t \in Tuples : accepted[t] <= 1

\* a later run matched a delivered tuple again and was through without a
\* second delivery, after some send had failed
C1_MatchedAgainNotResent ==
  \E t \in Tuples :
     /\ accepted[t] = 1
     /\ t \in ledger0[t.kind]
     /\ Matched(t.kind, t.player, t.game)
     /\ pc[t.kind] = "done"
     /\ everFaults \cap {"send_rejected", "send_error"} # {}
     /\ everFaults \cap LedgerFaults = {}

\* C2: every record in the ledger is of a tuple the transport has accepted a
\* delivery for; failed sends and a shutdown between send and mark leave none.
C2_RecordsOnlyOfAccepted == \A t \in ledger : accepted[t] >= 1

\* a run is through with one tuple recorded and another whose only send failed
C2_AcceptedRecordedFailedNot ==
  \E t \in ledger, u \in Tuples \ ledger :
     /\ u.kind = t.kind
     /\ pc[t.kind] = "done"
     /\ attempts[u] = 1
     /\ accepted[u] = 0

\* C3, as the spec states it: once the job has moved on from a subscriber,
\* and so at the end of the run, every tuple the transport accepted in this
\* run has a record in the ledger.
C3_AcceptedIsRecorded == \A k \in Kinds : MovedOn(k) => sent[k] \subseteq ledger

\* C3, amended: the same for a run in which no mark_sent write failed (a
\* failed write is logged only, and the accepted tuple stays without record).
C3_AcceptedIsRecordedWhenWriteWorks ==
  \A k \in Kinds :
     MovedOn(k) /\ "ledger_write" \notin passFaults[k] => sent[k] \subseteq ledger

\* a run is through with two accepted deliveries, both recorded
C3_TwoAcceptedTwoRecorded ==
  \E k \in Kinds :
     /\ pc[k] = "done"
     /\ Cardinality(sent[k]) = 2
     /\ sent[k] \subseteq ledger
     /\ "ledger_write" \notin passFaults[k]

\* C4, as the spec states it: a tuple with a record in the ledger when a run
\* begins gets no delivery attempt in that run.
C4_RecordedNotAttempted ==
  \A t \in Tuples : t \in ledger0[t.kind] => attempts[t] = 0

\* C4, amended: a tuple with a record in the ledger when a run begins gets no
\* delivery attempt in that run, unless a has_sent read of the run failed
\* (has_sent then answers false and the notification is sent again).
C4_RecordedNotAttemptedWhenReadWorks ==
  \A t \in Tuples :
     t \in ledger0[t.kind] /\ "ledger_read" \notin passFaults[t.kind] => attempts[t] = 0

\* a run without failures is through, having matched two recorded tuples of
\* one event again without an attempt for either
C4_BothSubscribersSkipped ==
  \E t \in Tuples, u \in Tuples :
     /\ t.chat # u.chat /\ t.player = u.player /\ t.game = u.game /\ t.kind = u.kind
     /\ {t, u} \subseteq ledger0[t.kind]
     /\ Matched(t.kind, t.player, t.game)
     /\ pc[t.kind] = "done"
     /\ passFaults[t.kind] = {}
     /\ attempts[t] = 0 /\ attempts[u] = 0

\* C5: at the end of a run in which the transport accepted every send and no
\* storage or lookup call failed, every subscriber of a matched (entity,
\* event) without a record at the start has exactly one attempt and a record,
\* every subscriber with a record has none, and nothing else was attempted.
C5_OneAttemptOneRecord ==
  \A k \in Kinds :
     pc[k] = "done" /\ passFaults[k] = {} =>
       /\ \A m \in matches[k] : \A c \in Snapshot(k)[m.player] :
            LET t == Tup(c, m.player, m.game, k)
            IN IF t \in ledger0[k] THEN attempts[t] = 0
               ELSE attempts[t] = 1 /\ t \in ledger /\ t \in sent[k]
       /\ \A t \in Tuples :
            t.kind = k /\ attempts[t] > 0 =>
              /\ Matched(k, t.player, t.game)
              /\ t.player \in DOMAIN Snapshot(k)
              /\ t.chat \in Snapshot(k)[t.player]

\* a run without failures is through with one attempt and one record for
\* each of the two subscribers of a matched entity
C5_TwoSubscribersTwoRecords ==
  \E k \in Kinds, g \in Games :
     /\ pc[k] = "done"
     /\ passFaults[k] = {}
     /\ ledger0[k] = {}
     /\ Matched(k, 7, g)
     /\ \A c \in Chats : attempts[Tup(c, 7, g, k)] = 1 /\ Tup(c, 7, g, k) \in ledger

\* the feed rows of game g, and the teams they are of
GameRows(g) == {i \in 1..Len(feed) : feed[i].game = g}
Participants(g) == {feed[i].team : i \in GameRows(g)}
\* the feed rows dated tomorrow
WindowRows == {i \in 1..Len(feed) : feed[i].date \in {"2025-04-08", "APR 08, 2025"}}
\* the feed has a row of game g for each of two teams, both dated tomorrow
TwoTeamsTomorrow(g) ==
  Cardinality(Participants(g)) = 2 /\ GameRows(g) \subseteq WindowRows
\* the matches the upcoming run made of player p with game g
MatchesOf(p, g) == {m \in matches["upcoming"] : m.player = p /\ m.game = g}
\* what the claim says follows for a followed player p of a team of game g:
\* one match, naming the other team, and one attempt and record per follower
OneMatchOneDelivery(p, g) ==
  /\ Cardinality(MatchesOf(p, g)) = 1
  /\ \A m \in MatchesOf(p, g) : Participants(g) = {TeamOf(p), m.opponent}
  /\ \A c \in up.all_follows[p] :
       /\ attempts[Tup(c, p, g, "upcoming")] = 1
       /\ Tup(c, p, g, "upcoming") \in ledger

\* C6, as the spec states it: when a game scheduled tomorrow has two teams in
\* the feed and a followed player belongs to one, the upcoming run makes
\* exactly one match of the player with the game, its opponent the other
\* team, whichever row of the game comes first; with an empty ledger and an
\* accepting transport each follower gets one attempt and one record.
C6_OneMatchPerFollowedParticipant ==
  pc["upcoming"] = "done" /\ ledger0["upcoming"] = {} /\ passFaults["upcoming"] = {} =>
    \A g \in Games : \A p \in DOMAIN up.all_follows :
       TwoTeamsTomorrow(g) /\ TeamOf(p) \in Participants(g) => OneMatchOneDelivery(p, g)

\* C6, amended: the same at the end of a run in which no call failed, for a
\* player the run has matched with no other game: a player is matched with
\* the first game of its team among tomorrow's rows only, and a later game
\* of the same team gets no match.
C6_OneMatchForFirstGame ==
  pc["upcoming"] = "done" /\ ledger0["upcoming"] = {} /\ passFaults["upcoming"] = {} =>
    \A g \in Games : \A p \in DOMAIN up.all_follows :
       /\ TwoTeamsTomorrow(g)
       /\ TeamOf(p) \in Participants(g)
       /\ (\A m \in matches["upcoming"] : m.player = p => m.game = g)
       => OneMatchOneDelivery(p, g)

\* the run is through; player 7 was matched through the row of the other
\* team, which the feed lists before the row of the player's own team, and
\* both followers have their record
C6_MatchedThroughOpponentRow ==
  /\ pc["upcoming"] = "done"
  /\ \E m \in matches["upcoming"] :
       /\ m.player = 7
       /\ feed[m.row].team = 20
       /\ m.opponent = 20
       /\ \E j \in GameRows(m.game) : j > m.row /\ feed[j].team = 10
       /\ \A c \in Chats : Tup(c, 7, m.game, "upcoming") \in ledger

\* the first of tomorrow's rows that player p can be matched with: a row of
\* a game of the player's team; a row without a row of the other team
\* matches the player only when an earlier row of tomorrow had one
RowsFor(p) ==
  {i \in WindowRows :
     \/ \E j \in opponent_rows(feed, i) : feed[j].team = TeamOf(p)
     \/ /\ feed[i].team = TeamOf(p)
        /\ \E j \in WindowRows : j <= i /\ opponent_rows(feed, j) # {}}

\* C8: a feed row whose date cannot be parsed is never the row of a match,
\* and no notification is sent for a game that has no parsed row dated
\* tomorrow; the run goes on past such a row, and at its end every followed
\* player is matched with the first row dated tomorrow that it can be
\* matched with.
C8_UnparsedRowNeverMatched ==
  /\ \A m \in matches["upcoming"] : feed[m.row].date # "TBD" /\ m.row \in WindowRows
  /\ \A t \in Tuples :
       t.kind = "upcoming" /\ attempts[t] > 0 => GameRows(t.game) \cap WindowRows # {}
  /\ pc["upcoming"] = "done" /\ passFaults["upcoming"] = {} =>
       \A p \in DOMAIN up.all_follows :
          RowsFor(p) # {} => \E m \in matches["upcoming"] :
                                 m.player = p /\ m.row = Min(RowsFor(p))

\* the run is through; the feed's first row has a date that cannot be
\* parsed, and a later row was matched and delivered
C8_MatchAfterUnparsedRow ==
  /\ pc["upcoming"] = "done"
  /\ Len(feed) > 1
  /\ feed[1].date = "TBD"
  /\ \E m \in matches["upcoming"] :
       /\ m.row > 1
       /\ \E c \in Chats : accepted[Tup(c, m.player, m.game, "upcoming")] = 1

\* the records of kind "finished" that chat c has for player p
FinishedRecords(c, p) ==
  {t \in ledger : t.chat = c /\ t.player = p /\ t.kind = "finished"}
\* the current finished run has called send_message at most once for chat c
\* and player p
AtMostOneAttempt(c, p) ==
  /\ \A g \in Games : attempts[Tup(c, p, g, "finished")] <= 1
  /\ Cardinality({g \in Games : attempts[Tup(c, p, g, "finished")] > 0}) <= 1

\* C7, as the spec states it: when the log of a followed player has more than
\* one row, the finished run makes at most one attempt per subscriber and
\* leaves exactly one record, of the first row's game, and none of another.
C7_ExactlyOneRecordOfFirstRow ==
  pc["finished"] = "done" =>
    \A p \in DOMAIN fin.all_follows : \A c \in fin.all_follows[p] :
       Len(gamelog[p]) > 1 =>
         /\ AtMostOneAttempt(c, p)
         /\ FinishedRecords(c, p) = {Tup(c, p, gamelog[p][1], "finished")}

\* C7, amended: when the log of a followed player has more than one row, a
\* finished run makes at most one attempt per subscriber, for the first row's
\* game only, and a record is only ever of the first row's game; at the end of
\* a run without failures the subscriber has exactly that one record.
C7_OnlyFirstRowUsed ==
  \A p \in Players : \A c \in Chats :
     Len(gamelog[p]) > 1 =>
       /\ AtMostOneAttempt(c, p)
       /\ \A g \in Games :
            g # gamelog[p][1] => attempts[Tup(c, p, g, "finished")] = 0
       /\ FinishedRecords(c, p) \subseteq {Tup(c, p, gamelog[p][1], "finished")}
       /\ (/\ pc["finished"] = "done"
           /\ passFaults["finished"] = {}
           /\ p \in DOMAIN fin.all_follows
           /\ c \in fin.all_follows[p])
          => FinishedRecords(c, p) = {Tup(c, p, gamelog[p][1], "finished")}

\* a finished run is through for a log of two games: each subscriber got one
\* attempt and has the record of the first game, none of the second
C7_TwoRowsOneRecordEach ==
  /\ pc["finished"] = "done"
  /\ gamelog[7] = <<"g1", "g2">>
  /\ \A c \in Chats :
       /\ attempts[Tup(c, 7, "g1", "finished")] = 1
       /\ FinishedRecords(c, 7) = {Tup(c, 7, "g1", "finished")}

\* the call the step makes is add_follow for a pair (chat, player)
FollowCall == lastOp'.op = "follow"
\* the user_player_follows rows of the pair of the step's call
PairRows(f) == {r \in f : r.chat = lastOp'.chat /\ r.player = lastOp'.player}

\* C9, as the spec states it: follow for a pair that is not followed returns
\* added, follow for a pair that is followed returns already_following, and
\* either way the store holds exactly one row of the pair afterwards.
C9_AddedThenAlreadyFollowing ==
  [][FollowCall =>
       /\ lastOp'.ret = (PairRows(follows) = {})
       /\ Cardinality(PairRows(follows')) = 1]_vars

\* C9, amended: the same when the store's write does not fail; on a storage
\* error add_follow answers already_following and adds no row.
C9_AddedThenAlreadyFollowingWhenWriteWorks ==
  [][FollowCall /\ lastOp'.db = "ok" =>
       /\ lastOp'.ret = (PairRows(follows) = {})
       /\ Cardinality(PairRows(follows')) = 1]_vars

\* a follow call answered already_following without a storage error: the
\* pair was followed before, and the store holds its one row
C9_SecondCallAlreadyFollowing ==
  /\ lastOp.op = "follow"
  /\ lastOp.db = "ok"
  /\ lastOp.ret = FALSE
  /\ Cardinality({r \in follows : r.chat = lastOp.chat /\ r.player = lastOp.player}) = 1

\* C10: unfollow with a name that equals, case aside, the name stored for a
\* subscription of the chat removes that subscription and returns removed
\* (stated for calls whose storage statements all succeed).
C10_UnfollowReturnsRemoved ==
  [][/\ lastOp'.op = "unfollow"
     /\ lastOp'.db = "ok"
     /\ NameMatches(follows, lastOp'.chat, lastOp'.name) # {}
     => /\ follows' = follows \ NameMatches(follows, lastOp'.chat, lastOp'.name)
        /\ lastOp'.ret = TRUE]_vars

\* the call the step makes is remove_follow
UnfollowCall == lastOp'.op = "unfollow"
\* the subscriptions of the calling chat whose stored name equals, case
\* aside, the name the step's remove_follow is called with
OwnMatches ==
  {r \in follows : r.chat = lastOp'.chat /\ Lower(r.name) = Lower(lastOp'.name)}

\* C11: after an unfollow whose statements all succeed has removed the
\* subscription (subscriber, entity), the ledger holds no record with that
\* subscriber and that entity, whatever the event and the kind.
C11_UnfollowClearsLedger ==
  [][UnfollowCall /\ lastOp'.db = "ok" =>
       \A r \in follows \ follows' :
          \A t \in ledger' : ~(t.chat = r.chat /\ t.player = r.player)]_vars

\* C12: unfollow with a name that matches none of the subscriber's
\* subscriptions returns not_found and leaves the follow store as it was,
\* whether or not a storage statement fails.
C12_NotFoundLeavesStore ==
  [][UnfollowCall /\ OwnMatches = {} =>
       lastOp'.ret = FALSE /\ follows' = follows]_vars

\* an unfollow of a name nobody stored has answered not_found while the
\* store holds subscriptions of the caller and of the other chat
C12_NotFoundWithOthersFollowed ==
  /\ lastOp.op = "unfollow"
  /\ lastOp.name = "Nobody"
  /\ lastOp.ret = FALSE
  /\ \E r \in follows : r.chat = lastOp.chat
  /\ \E r \in follows : r.chat # lastOp.chat

\* the step calls has_sent right after a mark_sent call on the same tuple
HasSentAfterMarkSent ==
  lastOp.op = "mark_sent" /\ lastOp'.op = "has_sent" /\ lastOp'.tuple = lastOp.tuple
\* the step calls mark_sent right after a mark_sent call on the same tuple
MarkSentTwice ==
  lastOp.op = "mark_sent" /\ lastOp'.op = "mark_sent" /\ lastOp'.tuple = lastOp.tuple

\* C13, as the spec states it: has_sent is true right after mark_sent on the
\* tuple and false for a tuple without a record (so for one never marked);
\* a second mark_sent on the tuple changes nothing, leaves its one record
\* and returns normally.
C13_MarkThenHasSent ==
  [][/\ HasSentAfterMarkSent => lastOp'.ret = TRUE
     /\ lastOp'.op = "has_sent" /\ lastOp'.tuple \notin ledger => lastOp'.ret = FALSE
     /\ MarkSentTwice =>
          ledger' = ledger /\ lastOp'.tuple \in ledger' /\ lastOp'.raised = FALSE]_vars

\* C13, amended: the same when none of the calls fails with a storage error;
\* a failed mark_sent leaves no record and a failed has_sent answers false.
C13_MarkThenHasSentWhenStoreWorks ==
  [][/\ HasSentAfterMarkSent /\ lastOp.db = "ok" /\ lastOp'.db = "ok" => lastOp'.ret = TRUE
     /\ lastOp'.op = "has_sent" /\ lastOp'.tuple \notin ledger => lastOp'.ret = FALSE
     /\ MarkSentTwice /\ lastOp.db = "ok" /\ lastOp'.db = "ok" =>
          ledger' = ledger /\ lastOp'.tuple \in ledger' /\ lastOp'.raised = FALSE]_vars

\* has_sent has answered true for a marked tuple while the ledger holds no
\* record of the tuple's other kind
C13_TrueForMarkedOnly ==
  /\ lastOp.op = "has_sent"
  /\ lastOp.db = "ok"
  /\ lastOp.ret = TRUE
  /\ lastOp.tuple \in ledger
  /\ \E u \in LedgerArgs \ ledger : u.chat = lastOp.tuple.chat /\ u.kind # lastOp.tuple.kind

\* C14: a tuple whose send in this run was rejected or failed, and was not
\* accepted in this run, has a record exactly if it had one when the run
\* began: the failed attempt writes nothing.
C14_FailedSendWritesNothing ==
  \A t \in Tuples :
     attempts[t] >= 1 /\ t \notin sent[t.kind] => (t \in ledger <=> t \in ledger0[t.kind])

\* a finished run is through after a send that failed with an unexpected
\* error: that tuple has no record, the other subscriber's accepted one has
C14_ErrorLeftNoRecord ==
  /\ pc["finished"] = "done"
  /\ "send_error" \in passFaults["finished"]
  /\ \E t \in Tuples, u \in Tuples :
       /\ t.kind = "finished" /\ u.kind = "finished" /\ t.player = u.player
       /\ attempts[t] = 1 /\ t \notin sent["finished"] /\ t \notin ledger
       /\ u \in sent["finished"] /\ u \in ledger

\* the players of the snapshot that a run of job k matches when no lookup fails
ExpectedPlayers(k) ==
  IF k = "upcoming" THEN {p \in DOMAIN Snapshot(k) : RowsFor(p) # {}}
  ELSE {p \in DOMAIN Snapshot(k) : gamelog[p] # << >>}
SendFaults == {"send_rejected", "send_error"}

\* C15: at the end of a run whose only failures were sends that were
\* rejected or raised, every followed player the run can match was matched,
\* and every subscriber of a matched player without a record got its one
\* delivery attempt: a failed send ends neither the chat loop nor the run.
C15_FailedSendDoesNotAbort ==
  \A k \in Kinds :
     pc[k] = "done" /\ passFaults[k] \subseteq SendFaults =>
       /\ {m.player : m \in matches[k]} = ExpectedPlayers(k)
       /\ \A m \in matches[k] : \A c \in Snapshot(k)[m.player] :
            Tup(c, m.player, m.game, k) \notin ledger0[k]
              => attempts[Tup(c, m.player, m.game, k)] = 1

\* after a send of the run has failed, the run is sending to a subscriber
\* of another player
C15_SendingAfterFailure ==
  \E k \in Kinds :
     /\ pc[k] = "sending"
     /\ passFaults[k] \cap SendFaults # {}
     /\ \E t \in Tuples :
          /\ t.kind = k /\ attempts[t] = 1 /\ t \notin sent[k]
          /\ t.player # (IF k = "upcoming" THEN up.player_id ELSE fin.player_id)

\* C16: a follow, unfollow or mark_sent call that meets a storage error
\* leaves the follow store and the ledger exactly as they were, and follow
\* and unfollow answer with their failure value.
C16_StorageErrorChangesNothing ==
  [][lastOp'.op \in {"follow", "unfollow", "mark_sent"} /\ lastOp'.db # "ok" =>
       /\ follows' = follows
       /\ ledger' = ledger
       /\ lastOp'.op # "mark_sent" => lastOp'.ret = FALSE]_vars

\* C17: no run of a job ends by an exception that leaves the job function,
\* whatever storage, lookup, feed or transport failure it meets.
C17_NoUnhandledError == "unhandled" \notin everFaults

\* tomorrow's rows of the team of player p whose game has no row of another team
LoneRowsOf(p) ==
  {i \in WindowRows : feed[i].team = TeamOf(p) /\ opponent_rows(feed, i) = {}}

\* C18: at the end of an upcoming run in which no call failed, a followed
\* player whose team has a row dated tomorrow without a row of the other
\* team is matched all the same, and each of its subscribers got a send.
C18_LoneRowStillMatched ==
  pc["upcoming"] = "done" /\ passFaults["upcoming"] = {} =>
    \A p \in DOMAIN up.all_follows :
       LoneRowsOf(p) # {} =>
         \E m \in matches["upcoming"] :
            /\ m.player = p
            /\ \A c \in up.all_follows[p] : attempts[Tup(c, p, m.game, "upcoming")] = 1

\* both invocations of check_upcoming_games have returned
BothReturned == pc["upcoming"] = "done" /\ twin.pc = "done"
\* the records the ledger holds for tuple t
RecordsOf(t) ==
  {r \in ledger : r.chat = t.chat /\ r.player = t.player /\ r.game = t.game
                    /\ r.kind = t.kind}

\* C19: when two invocations of the upcoming job overlap and, no call
\* failing, the transport accepted the notification of a tuple from both
\* (each asked has_sent before the other called mark_sent), the ledger holds
\* exactly one record for the tuple once both have returned.
C19_SentTwiceRecordedOnce ==
  \A t \in Tuples :
     BothReturned /\ everFaults = {} /\ accepted[t] >= 2 => Cardinality(RecordsOf(t)) = 1
\* both invocations sent chat 1 the notification of player 7 and game "g1",
\* and the ledger holds its record
C19_BothSentOneRecord ==
  /\ BothReturned
  /\ everFaults = {}
  /\ accepted[Tup(1, 7, "g1", "upcoming")] = 2
  /\ attempts[Tup(1, 7, "g1", "upcoming")] = 2
  /\ Tup(1, 7, "g1", "upcoming") \in ledger

\* the notifications a run of job k owes on the feed and logs at hand: one per
\* follow of a player with a game, of kind k
Due(k) ==
  IF k = "upcoming"
  THEN UNION {{Tup(r.chat, r.player, feed[i].game, k) :
                 i \in {j \in WindowRows : feed[j].team = TeamOf(r.player)}} :
              r \in follows}
  ELSE {Tup(r.chat, r.player, gamelog[r.player][1], k) :
          r \in {f \in follows : gamelog[f.player] # << >>}}
\* the records of kind k in the ledger l
OfKind(l, k) == {t \in l : t.kind = k}

\* C20: a run of a job in which no call failed ends with the deliveries and
\* the records of its kind that the ledger records of its kind at its start
\* determine, whatever the other job did before or in between: it delivered
\* the notifications it owed that had no record of its kind, and the ledger's
\* records of its kind are those it began with and those it owed.
C20_OutcomeOfOwnKindOnly ==
  \A k \in Kinds :
     pc[k] = "done" /\ passFaults[k] = {} =>
       /\ sent[k] = Due(k) \ OfKind(ledger0[k], k)
       /\ OfKind(ledger, k) = OfKind(ledger0[k], k) \cup Due(k)
\* both jobs returned with every notification delivered and recorded, and
\* check_finished_games began when check_upcoming_games had recorded its
\* delivery to one chat and not yet to the other
C20_FinishedBeganMidUpcoming ==
  /\ pc["upcoming"] = "done" /\ pc["finished"] = "done"
  /\ everFaults = {}
  /\ Cardinality(OfKind(ledger0["finished"], "upcoming")) = 1
  /\ ledger0["upcoming"] = {}
  /\ sent["upcoming"] = Due("upcoming") /\ sent["finished"] = Due("finished")
  /\ ledger = Due("upcoming") \cup Due("finished")

\* a run of job k is under way
Running(k) == pc[k] \notin {"idle", "done"}
\* the step is one of a job, not a command
JobStep == pc' # pc \/ up' # up \/ fin' # fin
\* the notifications of kind k that the grouping snap calls for: one per
\* player of snap with a game and chat of the player in snap
DueOf(snap, k) ==
  UNION {{Tup(c, p, g, k) :
            c \in snap[p],
            g \in IF k = "upcoming" THEN {feed[i].game : i \in RowsFor(p)}
                  ELSE IF gamelog[p] = << >> THEN {} ELSE {gamelog[p][1]}} :
         p \in DOMAIN snap}
\* the tuples of kind k with a send_message call in the count a
Attempted(a, k) == {t \in Tuples : t.kind = k /\ a[t] > 0}

\* C21: a run's grouping is the follow table as read at its start and stays
\* as read while the run lasts, whatever /follow and /unfollow do meanwhile;
\* every send goes to a chat of the grouping, a run without a failed call
\* ends having sent to every chat of the grouping that had no record, and no
\* step of a job changes the follow table.
C21_PassUsesItsSnapshot ==
  [][/\ JobStep => follows' = follows
     /\ \A k \in Kinds :
          /\ ~Running(k) /\ Running(k)' =>
               Snapshot(k)' = [p \in {r.player : r \in follows} |->
                                 {r.chat : r \in {q \in follows : q.player = p}}]
          /\ Running(k) /\ Running(k)' => Snapshot(k)' = Snapshot(k)
          /\ Running(k) /\ pc'[k] = "done" /\ passFaults'[k] = {} =>
               Attempted(attempts', k) = DueOf(Snapshot(k)', k) \ ledger0[k]
     /\ \A t \in Tuples :
          attempts'[t] > attempts[t] =>
            /\ t.player \in DOMAIN Snapshot(t.kind)
            /\ t.chat \in Snapshot(t.kind)[t.player]]_vars
\* the upcoming run, no call failed, is through the chats of player 7: it
\* sent to chat 1 and not to chat 2, which followed the player after the
\* run began
C21_FollowedDuringRun ==
  /\ pc["upcoming"] = "chat" /\ up.chat_ids = {} /\ up.player_id = 7
  /\ everFaults = {}
  /\ FollowRow(2, 7) \in follows
  /\ up.all_follows[7] = {1}
  /\ attempts[Tup(1, 7, "g1", "upcoming")] = 1
  /\ attempts[Tup(2, 7, "g1", "upcoming")] = 0

\* the step is a lookup of job k that failed
LookupFailed(k) == pc[k] = "player" /\ pc'[k] = "player" /\ nfaults' > nfaults
\* the players of the grouping of job k left in the loop over the players
Remaining(k) == IF k = "upcoming" THEN up.players ELSE fin.players
\* the current run of job k made no send_message call for player p
NoAttemptFor(k, p) == \A c \in Chats, g \in Games : attempts[Tup(c, p, g, k)] = 0

\* C22, as the spec states it, in upcoming mode: when every followed player
\* has a game tomorrow and the only failures of the run were lookups, a
\* player whose lookup failed got no delivery, so some followed player is
\* without a send at the end of the run.
C22_FailedLookupNoDelivery ==
  /\ pc["upcoming"] = "done"
  /\ passFaults["upcoming"] = {"lookup"}
  /\ DOMAIN up.all_follows = ExpectedPlayers("upcoming")
  => \E p \in DOMAIN up.all_follows : NoAttemptFor("upcoming", p)

\* C22, amended: a failed lookup makes no delivery and changes neither the
\* ledger nor the matches; the run goes on with the other players, and a run
\* whose only failures were lookups matches every player it can match but at
\* most one per failed lookup, sending to every chat of a matched player that
\* had no record.  (In upcoming mode the player is looked up again with the
\* next feed row.)
C22_FailedLookupSkipsThatLookup ==
  /\ [][\A k \in Kinds :
          LookupFailed(k) =>
            /\ ledger' = ledger /\ attempts' = attempts /\ accepted' = accepted
            /\ matches' = matches
            /\ \E p \in Remaining(k) : Remaining(k)' = Remaining(k) \ {p}]_vars
  /\ [](\A k \in Kinds :
          pc[k] = "done" /\ passFaults[k] = {"lookup"} =>
            /\ {m.player : m \in matches[k]} \subseteq ExpectedPlayers(k)
            /\ Cardinality(ExpectedPlayers(k) \ {m.player : m \in matches[k]}) <= nfaults
            /\ \A m \in matches[k] : \A c \in Snapshot(k)[m.player] :
                 \/ Tup(c, m.player, m.game, k) \in ledger0[k]
                 \/ attempts[Tup(c, m.player, m.game, k)] = 1)
\* the finished run is through after the game log lookup of player 9 failed:
\* player 7 was matched and chat 1 sent its notification, player 9 was not
C22_OtherPlayerStillSent ==
  /\ pc["finished"] = "done"
  /\ passFaults["finished"] = {"lookup"}
  /\ ExpectedPlayers("finished") = {7, 9}
  /\ {m.player : m \in matches["finished"]} = {7}
  /\ attempts[Tup(1, 7, "g1", "finished")] = 1
  /\ NoAttemptFor("finished", 9)
  /\ OfKind(ledger, "finished") = {Tup(1, 7, "g1", "finished"), Tup(2, 7, "g1", "finished")}

\* the games the current upcoming run called send_message for, for player p
GamesSentFor(p) ==
  {g \in Games : \E c \in Chats : attempts[Tup(c, p, g, "upcoming")] > 0}

\* C23: in one upcoming run every followed player is matched at most once
\* and notifications for the player go out for one game at most, whatever the
\* number of rows and games of the window its team is in.
C23_MatchedAtMostOnce ==
  \A p \in Players :
     /\ Cardinality({m \in matches["upcoming"] : m.player = p}) <= 1
     /\ Cardinality(GamesSentFor(p)) <= 1
\* the run is through a feed in which the team of player 7 plays two games
\* tomorrow, four rows in all: one match and the sends of one game
C23_TwoGamesOneMatch ==
  /\ pc["upcoming"] = "done"
  /\ Len(feed) = 4
  /\ Cardinality({feed[i].game : i \in RowsFor(7)}) = 2
  /\ Cardinality({m \in matches["upcoming"] : m.player = 7}) = 1
  /\ Cardinality(GamesSentFor(7)) = 1

\* the values of the sequence q
Range(q) == {q[i] : i \in 1..Len(q)}
\* what the claim says of the grouping ret returned for the rows: an entry
\* for each player with a row and for no other, holding each chat of the
\* player's rows once; as sets, the grouping the jobs are modelled with
GroupedExactly(rows, ret) ==
  /\ DOMAIN ret = {r.player : r \in Range(rows)}
  /\ \A p \in DOMAIN ret :
       /\ Range(ret[p]) = {r.chat : r \in {q \in Range(rows) : q.player = p}}
       /\ Len(ret[p]) = Cardinality(Range(ret[p]))
  /\ [p \in DOMAIN ret |-> Range(ret[p])] = get_all_follows(Range(rows), TRUE)

\* C24, as the spec states it: get_all_follows returns an entry for every
\* player with a row and no other, holding exactly the chats that follow the
\* player, each once, redundant rows or not.
C24_GroupedExactly ==
  lastOp.op = "get_all_follows" => GroupedExactly(lastOp.rows, lastOp.ret)

\* C24, amended: the same when the SELECT does not fail; after a
\* sqlite3.Error the grouping returned is empty.
C24_GroupedExactlyWhenReadWorks ==
  lastOp.op = "get_all_follows" =>
    IF lastOp.db = "ok" THEN GroupedExactly(lastOp.rows, lastOp.ret)
    ELSE DOMAIN lastOp.ret = {}
\* the rows held the pair (7, 1) twice and the pair (7, 2), and no row of
\* player 9: the grouping has chats 1 and 2 for player 7 and no other entry
C24_RedundantRowListedOnce ==
  /\ lastOp.op = "get_all_follows"
  /\ lastOp.db = "ok"
  /\ Len(lastOp.rows) = 3
  /\ Cardinality(Range(lastOp.rows)) = 2
  /\ DOMAIN lastOp.ret = {7}
  /\ Range(lastOp.ret[7]) = {1, 2}
  /\ Len(lastOp.ret[7]) = 2

\* what the claim says of the list ret returned for chat c: the rows of the
\* chat and no other, each once, ascending by name without regard to case
ListedInOrder(c, ret) ==
  /\ Range(ret) = {<<r.player, r.name>> : r \in {q \in follows : q.chat = c}}
  /\ Len(ret) = Cardinality(Range(ret))
  /\ \A i, j \in 1..Len(ret) : i < j => ~NoCaseLess(ret[j][2], ret[i][2])

\* C25, as the spec states it: get_followed_players returns exactly the
\* subscriptions of the chat, each once and none of another chat, ascending
\* by display name compared without regard to case.
C25_ListedInOrder ==
  lastOp.op = "get_followed_players" => ListedInOrder(lastOp.chat, lastOp.ret)

\* C25, amended: the same when the SELECT does not fail; after a
\* sqlite3.Error the list returned is empty.
C25_ListedInOrderWhenReadWorks ==
  lastOp.op = "get_followed_players" =>
    IF lastOp.db = "ok" THEN ListedInOrder(lastOp.chat, lastOp.ret)
    ELSE lastOp.ret = << >>
\* chat 1 follows the three players and chat 2 follows one: the list of chat
\* 1 is James, Jokic, Curry
C25_ThreeNamesInOrder ==
  /\ lastOp.op = "get_followed_players"
  /\ lastOp.db = "ok"
  /\ lastOp.chat = 1
  /\ \E r \in follows : r.chat = 2
  /\ lastOp.ret = <<<<7, "LeBron James">>, <<11, "Nikola Jokic">>, <<9, "Stephen Curry">>>>

\* C26: in a run of either job send_message is called at most once for a
\* tuple, whatever the outcome of the call and although the feed holds a
\* row of the game for each of its two teams.
C26_AtMostOneAttemptPerRun == \A t \in Tuples : attempts[t] <= 1
\* the upcoming run is through both rows of game "g1": the send to chat 1
\* for player 7 was rejected, it was made once and left no record
C26_RejectedNotRetried ==
  /\ pc["upcoming"] = "done"
  /\ Len(feed) = 2
  /\ passFaults["upcoming"] = {"send_rejected"}
  /\ attempts[Tup(1, 7, "g1", "upcoming")] = 1
  /\ Tup(1, 7, "g1", "upcoming") \notin sent["upcoming"]
  /\ Tup(1, 7, "g1", "upcoming") \notin ledger

\* C27: when the only failures so far were sends rejected or failed in an
\* earlier run, a run of a job that ends without a failure has sent to
\* every matched tuple that had no record when it began, the tuples of the
\* failed sends among them: every matched tuple has been accepted by the
\* transport, in this run or before, and has its record.
C27_FailedSendRetriedNextRun ==
  \A k \in Kinds :
     /\ pc[k] = "done" /\ passFaults[k] = {}
     /\ everFaults # {} /\ everFaults \subseteq SendFaults
     => \A m \in matches[k] : \A c \in Snapshot(k)[m.player] :
          LET t == Tup(c, m.player, m.game, k)
          IN /\ accepted[t] >= 1
             /\ t \in ledger
             /\ t \in sent[k] <=> t \notin ledger0[k]
\* the second finished run is through without a failure: the first one had a
\* send that raised and recorded the other deliveries, and this one sent
\* the one notification that had no record
C27_SecondRunSentTheFailedOne ==
  /\ passes = 2
  /\ pc["finished"] = "done"
  /\ passFaults["finished"] = {} /\ passFaults["upcoming"] = {}
  /\ everFaults = {"send_error"}
  /\ OfKind(ledger0["finished"], "finished") # {}
  /\ Cardinality(sent["finished"]) = 1
  /\ sent["finished"] \cap ledger0["finished"] = {}
  /\ sent["finished"] \subseteq ledger

\* C28: at the end of a finished run in which at most the pull of the full
\* feed failed, every chat following a player whose log for yesterday holds
\* a game either had a record for it when the run began or was sent the
\* notification, whatever the full feed held.
C28_LogAloneDecides ==
  pc["finished"] = "done" /\ passFaults["finished"] \subseteq {"feed"} =>
    \A r \in follows :
       gamelog[r.player] # << >> =>
         LET t == Tup(r.chat, r.player, gamelog[r.player][1], "finished")
         IN t \in ledger0["finished"] \/ attempts[t] = 1

\* the scheduled day of the game of feed row i, 0 when the text is no date
ScheduledDay(i) ==
  CASE feed[i].date \in {"2025-04-08", "APR 08, 2025"} -> NowDay + 1
    [] feed[i].date = "2025-04-09" -> NowDay + 2
    [] OTHER -> 0

\* C29: an upcoming run matches a player only through a feed row scheduled
\* on the day of tomorrow, and sends only for the game of such a row; a row
\* at the start of the day after tomorrow is outside.
C29_OnlyTomorrowMatched ==
  /\ \A m \in matches["upcoming"] :
       feed[m.row].game = m.game /\ ScheduledDay(m.row) = NowDay + 1
  /\ \A t \in Tuples :
       t.kind = "upcoming" /\ attempts[t] > 0 =>
         \E i \in 1..Len(feed) : feed[i].game = t.game /\ ScheduledDay(i) = NowDay + 1
\* the run is through a feed whose first row, of the team of player 7, is
\* of a game at the start of the day after tomorrow and whose later row of
\* the team is of a game at the start of tomorrow: the player was matched
\* with the later game and nothing was sent for the first
C29_DayAfterSkipped ==
  /\ pc["upcoming"] = "done"
  /\ \E i, j \in 1..Len(feed) :
       /\ i < j
       /\ feed[i].team = 10 /\ ScheduledDay(i) = NowDay + 2
       /\ feed[j].team = 10 /\ ScheduledDay(j) = NowDay + 1
       /\ feed[i].game # feed[j].game
       /\ \A h \in 1..Len(feed) : feed[h].game = feed[i].game => ScheduledDay(h) = NowDay + 2
       /\ matches["upcoming"] # {}
       /\ \A m \in matches["upcoming"] : m.player = 7 => m.game = feed[j].game
       /\ \E m \in matches["upcoming"] : m.player = 7
       /\ attempts[Tup(1, 7, feed[j].game, "upcoming")] = 1
       /\ attempts[Tup(1, 7, feed[i].game, "upcoming")] = 0

\* C30: in one upcoming run CommonPlayerInfo is called at most once for
\* each followed player, however many rows the window holds.
C30_LookedUpAtMostOnce == \A p \in Players : lookups[p] <= 1

\* C31: every send_message call of a run is to a chat that followed the
\* player of the notification in the follow table as it was when the run
\* began; a chat is sent nothing about a player it did not follow then.
C31_SentOnlyToFollowersAtStart ==
  \A t \in Tuples :
     attempts[t] > 0 =>
       \E r \in follows0[t.kind] : r.chat = t.chat /\ r.player = t.player
\* the finished run is through: chat 1, which followed player 7 when the run
\* began and has unfollowed since, was sent the notification, and chat 2,
\* which follows the player now and did not then, was not
C31_SentToFollowerOfTheStart ==
  /\ pc["finished"] = "done"
  /\ follows0["finished"] = {FollowRow(1, 7)}
  /\ follows = {FollowRow(2, 7)}
  /\ attempts[Tup(1, 7, "g1", "finished")] = 1
  /\ attempts[Tup(2, 7, "g1", "finished")] = 0

\* the games tomorrow that the team of player p plays in
EventsOf(p) == {feed[i].game : i \in {j \in WindowRows : TeamOf(p) \in Participants(feed[j].game)}}
\* the one of them that comes first in the feed
FirstEvent(p) ==
  feed[Min({j \in WindowRows : TeamOf(p) \in Participants(feed[j].game)})].game
\* no send_message call of the current upcoming run, and no accepted
\* delivery of any upcoming run, is about player p and a game other than g
OnlyDispatched(p, g) ==
  \A c \in Chats : \A h \in Games \ {g} :
     attempts[Tup(c, p, h, "upcoming")] = 0 /\ accepted[Tup(c, p, h, "upcoming")] = 0

Refollowed(t) ==
  /\ lastOp.op = "follow" /\ lastOp.ret = TRUE /\ lastOp.db = "ok"
  /\ lastOp.chat = t.chat /\ lastOp.player = t.player

OtherRows(f, c, name) == {r \in f : r.chat # c \/ Lower(r.name) # Lower(name)}

\* C34: an /unfollow removes only rows of its chat under the typed name:
\* the rows of every other chat, the chat's rows under other names and the
\* records of every other chat are after the call what they were before,
\* and no row or record is added.
C34_UnfollowTouchesOwnRowsOnly ==
  [][lastOp'.op = "unfollow" =>
       /\ follows' \subseteq follows /\ ledger' \subseteq ledger
       /\ OtherRows(follows', lastOp'.chat, lastOp'.name)
            = OtherRows(follows, lastOp'.chat, lastOp'.name)
       /\ {n \in ledger' : n.chat # lastOp'.chat} = {n \in ledger : n.chat # lastOp'.chat}]_vars
\* chat 1 has just unfollowed "lebron james": its row for player 7 is gone,
\* its row for player 9 and the rows of chat 2 are there, and so is the
\* record chat 2 has for player 7
C34_OthersKeptAfterUnfollow ==
  /\ lastOp.op = "unfollow" /\ lastOp.db = "ok"
  /\ lastOp.chat = 1 /\ lastOp.name = "lebron james"
  /\ follows = {FollowRow(1, 9), FollowRow(2, 7), FollowRow(2, 9)}
  /\ Tup(2, 7, "g1", "upcoming") \in ledger

====
